---- MODULE Spec2Model ----
(***************************************************************************)
(* The social graph engine of Warsha_hub: the SocialNetwork singleton of   *)
(* app/backend_files/social_network.py, an adjacency matrix kept as a      *)
(* Python list of lists, graph[i][j] == 1 meaning user i follows user j.   *)
(*                                                                         *)
(* Spec   is the store as a state machine: any sequence of the mutating    *)
(*        calls, with any integer arguments (negative ones included).      *)
(* SpecQ  applies the read-only engines (traversal, ranking) to a matrix   *)
(*        drawn from the bounded set of matrices the store can hold.       *)
(***************************************************************************)
EXTENDS Integers, Sequences, FiniteSets, TLC

VARIABLES graph, lastOp, ret, raised, changed, threads, cls, db

vars == <<graph, lastOp, ret, raised, changed, threads, cls, db>>

(***************************************************************************)
(* Bounds of the model.                                                    *)
(***************************************************************************)
\* largest user id handed to create_node / returned by return_last_user_id
MaxId == 2
\* largest number of 1-cells the mutation machine lets the matrix hold
MaxEdges == 2
\* largest matrix dimension drawn for the read-only engines
QSize == 3
\* largest number of 1-cells of a matrix drawn for the read-only engines
QEdges == 3

(***************************************************************************)
(* Python values.                                                          *)
(***************************************************************************)
\* the value of a call that returns nothing
None == "None"

\* ids handed to the calls: valid ones, MaxId + 1 (at or beyond every matrix)
\* and -1 (a Python subscript counting from the end: the last row or column
\* of a non-empty matrix, IndexError on an empty one)
Ids == (-1) .. (MaxId + 1)

\* list[i] is defined for -len <= i < len
InRange(i, n) == (-n <= i) /\ (i < n)

\* the 1-based position list[i] reads, negative i counting from the end
Pos(i, n) == IF i < 0 THEN n + i + 1 ELSE i + 1

\* [0] * n, which is [] for n <= 0
Zeros(n) == [k \in 1 .. n |-> 0]

\* both subscripts of graph[i][j] are valid
CellOK(g, i, j) == InRange(i, Len(g)) /\ InRange(j, Len(g[Pos(i, Len(g))]))

\* graph[i][j]
Cell(g, i, j) == g[Pos(i, Len(g))][Pos(j, Len(g[Pos(i, Len(g))]))]

\* graph[i][j] = v
SetCell(g, i, j, v) ==
  [g EXCEPT ![Pos(i, Len(g))][Pos(j, Len(g[Pos(i, Len(g))]))] = v]

\* the outcome of a call: the matrix it leaves, its return value, and whether
\* it ended by raising
Returns(g, r) == [graph |-> g, ret |-> r, raised |-> FALSE]
Raises(g) == [graph |-> g, ret |-> None, raised |-> TRUE]

\* sum over a list of 0/1
RECURSIVE SumSeq(_)
SumSeq(s) == IF s = <<>> THEN 0 ELSE Head(s) + SumSeq(Tail(s))

\* _count_connections
RECURSIVE CountConnections(_)
CountConnections(g) ==
  IF g = <<>> THEN 0 ELSE SumSeq(Head(g)) + CountConnections(Tail(g))

(***************************************************************************)
(* Graph store: the mutating calls, as functions of the matrix.            *)
(***************************************************************************)
\* the loop of initialize_graph over the fetched rows, from row k on
RECURSIVE PopulateFrom(_, _, _, _)
PopulateFrom(g, size, connections, k) ==
  IF k > Len(connections) THEN Returns(g, None)
  ELSE LET follower == connections[k][1]
           followee == connections[k][2]
       IN IF follower < size /\ followee < size /\ follower # followee
          THEN IF CellOK(g, follower, followee)
               THEN PopulateFrom(SetCell(g, follower, followee, 1), size,
                                 connections, k + 1)
               ELSE Raises(g)
          ELSE PopulateFrom(g, size, connections, k + 1)

initialize_graph(max_user_id, connections) ==
  LET size == max_user_id + 1
  IN PopulateFrom([i \in 1 .. size |-> Zeros(size)], size, connections, 1)


\* create_node with lines 92-93 left out: the rows already there keep their
\* old width
create_node_NoExtend(g, user_id) ==
  LET current_size == Len(g)
      new_size == user_id + 1
  IN IF user_id >= current_size
     THEN Returns(g \o [i \in 1 .. (new_size - current_size) |->
                         Zeros(new_size)],
                  None)
     ELSE Returns(g, None)

\* create_node allocating the grown matrix afresh: the follows already stored
\* are lost
create_node_Fresh(g, user_id) ==
  LET current_size == Len(g)
      new_size == user_id + 1
  IN IF user_id >= current_size
     THEN Returns([i \in 1 .. new_size |-> Zeros(new_size)], None)
     ELSE Returns(g, None)

create_node(g, user_id) ==
  LET current_size == Len(g)
      new_size == user_id + 1
  IN IF user_id >= current_size
     THEN Returns([i \in 1 .. current_size |->
                     g[i] \o Zeros(new_size - Len(g[i]))]
                  \o [i \in 1 .. (new_size - current_size) |-> Zeros(new_size)],
                  None)
     ELSE Returns(g, None)

\* for j in range(size): graph[user_id][j] = 0, from column j on
RECURSIVE ClearRow(_, _, _, _)
ClearRow(g, user_id, j, size) ==
  IF j >= size THEN Returns(g, None)
  ELSE IF CellOK(g, user_id, j)
       THEN ClearRow(SetCell(g, user_id, j, 0), user_id, j + 1, size)
       ELSE Raises(g)

\* for i in range(size): graph[i][user_id] = 0, from row i on
RECURSIVE ClearColumn(_, _, _, _)
ClearColumn(g, user_id, i, size) ==
  IF i >= size THEN Returns(g, None)
  ELSE IF CellOK(g, i, user_id)
       THEN ClearColumn(SetCell(g, i, user_id, 0), user_id, i + 1, size)
       ELSE Raises(g)


\* the sequence s without its element at position p
Without(s, p) == SubSeq(s, 1, p - 1) \o SubSeq(s, p + 1, Len(s))

\* remove_node deleting the row and the column of the user instead of
\* clearing them
remove_node_Shrinks(g, user_id) ==
  IF user_id >= Len(g) \/ ~InRange(user_id, Len(g)) THEN Returns(g, None)
  ELSE LET p == Pos(user_id, Len(g))
           rows == Without(g, p)
       IN Returns([i \in 1 .. Len(rows) |->
                     IF p <= Len(rows[i]) THEN Without(rows[i], p)
                     ELSE rows[i]],
                  None)

\* remove_node without lines 116-118: the row of the user is cleared, the
\* column is not, so the followers of the user stay
remove_node_RowOnly(g, user_id) ==
  IF user_id >= Len(g) THEN Returns(g, None)
  ELSE ClearRow(g, user_id, 0, Len(g))

remove_node(g, user_id) ==
  IF user_id >= Len(g) THEN Returns(g, None)
  ELSE LET row == ClearRow(g, user_id, 0, Len(g))
       IN IF row.raised THEN row
          ELSE ClearColumn(row.graph, user_id, 0, Len(g))


\* add_edge with the subscripts swapped: graph[to_user][from_user] = 1
add_edge_Swapped(g, from_user, to_user) ==
  IF from_user >= Len(g) \/ to_user >= Len(g) THEN Returns(g, None)
  ELSE IF from_user = to_user THEN Returns(g, None)
  ELSE IF CellOK(g, to_user, from_user)
       THEN Returns(SetCell(g, to_user, from_user, 1), None)
       ELSE Raises(g)

add_edge(g, from_user, to_user) ==
  IF from_user >= Len(g) \/ to_user >= Len(g) THEN Returns(g, None)
  ELSE IF from_user = to_user THEN Returns(g, None)
  ELSE IF CellOK(g, from_user, to_user)
       THEN Returns(SetCell(g, from_user, to_user, 1), None)
       ELSE Raises(g)

remove_edge(g, from_user, to_user) ==
  IF from_user >= Len(g) \/ to_user >= Len(g) THEN Returns(g, None)
  ELSE IF CellOK(g, from_user, to_user)
       THEN Returns(SetCell(g, from_user, to_user, 0), None)
       ELSE Raises(g)

clear_graph(g) == Returns(<<>>, None)

(***************************************************************************)
(* Graph store: the reads.                                                 *)
(***************************************************************************)
is_edge(g, user1, user2) ==
  IF user1 >= Len(g) \/ user2 >= Len(g) THEN Returns(g, FALSE)
  ELSE IF CellOK(g, user1, user2)
       THEN Returns(g, Cell(g, user1, user2) = 1)
       ELSE Raises(g)

return_num_of_users(g) == Len(g)

\* the loop of get_followers over the rows, from row i on
RECURSIVE FollowersFrom(_, _, _, _)
FollowersFrom(g, user_id, i, followers) ==
  IF i >= Len(g) THEN Returns(g, followers)
  ELSE IF CellOK(g, i, user_id)
       THEN FollowersFrom(g, user_id, i + 1,
                          IF Cell(g, i, user_id) = 1
                          THEN Append(followers, i) ELSE followers)
       ELSE Raises(g)

\* get_followers that takes the followers out of the matrix as it lists
\* them: the column of the user is left cleared
get_followers_Consuming(g, user_id) ==
  IF user_id >= Len(g) THEN Returns(g, <<>>)
  ELSE LET listed == FollowersFrom(g, user_id, 0, <<>>)
       IN IF listed.raised THEN listed
          ELSE Returns(ClearColumn(g, user_id, 0, Len(g)).graph, listed.ret)

get_followers(g, user_id) ==
  IF user_id >= Len(g) THEN Returns(g, <<>>)
  ELSE FollowersFrom(g, user_id, 0, <<>>)

\* the loop of get_following over the columns, from column j on
RECURSIVE FollowingFrom(_, _, _, _)
FollowingFrom(g, user_id, j, following) ==
  IF j >= Len(g) THEN Returns(g, following)
  ELSE IF CellOK(g, user_id, j)
       THEN FollowingFrom(g, user_id, j + 1,
                          IF Cell(g, user_id, j) = 1
                          THEN Append(following, j) ELSE following)
       ELSE Raises(g)

get_following(g, user_id) ==
  IF user_id >= Len(g) THEN Returns(g, <<>>)
  ELSE FollowingFrom(g, user_id, 0, <<>>)

\* set(list)
SetOf(s) == {s[k] : k \in 1 .. Len(s)}

\* list(s) for a set s of small non-negative ints: CPython keeps such an int
\* in the slot of its own value, so the list comes out in ascending order
RECURSIVE ListOf(_)
ListOf(s) ==
  IF s = {} THEN <<>>
  ELSE LET least == CHOOSE x \in s : \A y \in s : x <= y
       IN <<least>> \o ListOf(s \ {least})

get_mutual_followers(g, user1, user2) ==
  LET followers1 == get_followers(g, user1)
      followers2 == get_followers(g, user2)
  IN IF followers1.raised \/ followers2.raised THEN Raises(g)
     ELSE Returns(g, ListOf(SetOf(followers1.ret)
                            \cap SetOf(followers2.ret)))

get_mutual_following(g, user1, user2) ==
  LET following1 == get_following(g, user1)
      following2 == get_following(g, user2)
  IN IF following1.raised \/ following2.raised THEN Raises(g)
     ELSE Returns(g, ListOf(SetOf(following1.ret)
                            \cap SetOf(following2.ret)))

\* is_edge(user1, user2) and is_edge(user2, user1): the second call is made
\* only when the first one returned True
are_mutual_followers(g, user1, user2) ==
  LET first == is_edge(g, user1, user2)
      second == is_edge(g, user2, user1)
  IN IF first.raised THEN Raises(g)
     ELSE IF ~first.ret THEN Returns(g, FALSE)
     ELSE IF second.raised THEN Raises(g)
     ELSE Returns(g, second.ret)

(***************************************************************************)
(* Floats: every float the engines return is a quotient of two small       *)
(* integers, kept as the fraction <<numerator, denominator>> in lowest     *)
(* terms, so two results are the same float iff they are the same pair.    *)
(***************************************************************************)
RECURSIVE GCD(_, _)
GCD(a, b) == IF b = 0 THEN a ELSE GCD(b, a % b)

\* n / d for integers n >= 0, d > 0
Div(n, d) == <<n \div GCD(n, d), d \div GCD(n, d)>>

\* the literal 0.0
Zero == <<0, 1>>

(***************************************************************************)
(* Traversal engine.                                                       *)
(***************************************************************************)
\* the BFS state: visited flags, distance (or parent) per node, the deque
Bfs(visited, label, queue) ==
  [visited |-> visited, label |-> label, queue |-> queue, raised |-> FALSE]
BfsRaises == [visited |-> <<>>, label |-> <<>>, queue |-> <<>>, raised |-> TRUE]

\* get_degree_of_separation, lines 362-366: for neighbor in range(size),
\* from neighbor on
RECURSIVE DegreeScan(_, _, _, _)
DegreeScan(g, current, neighbor, b) ==
  IF neighbor >= Len(g) THEN b
  ELSE IF ~CellOK(g, neighbor, current) THEN BfsRaises
  ELSE IF Cell(g, neighbor, current) = 1 /\ ~b.visited[neighbor + 1]
       THEN DegreeScan(g, current, neighbor + 1,
              Bfs([b.visited EXCEPT ![neighbor + 1] = TRUE],
                  [b.label EXCEPT ![neighbor + 1] =
                     b.label[Pos(current, Len(g))] + 1],
                  Append(b.queue, neighbor)))
       ELSE DegreeScan(g, current, neighbor + 1, b)

\* get_degree_of_separation, lines 356-368: while queue
RECURSIVE DegreeLoop(_, _, _)
DegreeLoop(g, target_user, b) ==
  IF b.queue = <<>> THEN Returns(g, -1)
  ELSE LET current == Head(b.queue)
       IN IF current = target_user
          THEN Returns(g, b.label[Pos(current, Len(g))])
          ELSE LET scanned == DegreeScan(g, current, 0,
                                Bfs(b.visited, b.label, Tail(b.queue)))
               IN IF scanned.raised THEN Raises(g)
                  ELSE DegreeLoop(g, target_user, scanned)


\* get_degree_of_separation without lines 345-346 and 353: no shortcut for
\* start == target, and the distance of the start left at -1
get_degree_of_separation_NoSameUser(g, start_user, target_user) ==
  LET size == Len(g)
  IN IF start_user >= size \/ target_user >= size THEN Returns(g, -1)
     ELSE IF ~InRange(start_user, size) THEN Raises(g)
     ELSE DegreeLoop(g, target_user,
            Bfs([[k \in 1 .. size |-> FALSE]
                   EXCEPT ![Pos(start_user, size)] = TRUE],
                [k \in 1 .. size |-> -1],
                <<start_user>>))

get_degree_of_separation(g, start_user, target_user) ==
  LET size == Len(g)
  IN IF start_user >= size \/ target_user >= size THEN Returns(g, -1)
     ELSE IF start_user = target_user THEN Returns(g, 0)
     ELSE IF ~InRange(start_user, size) THEN Raises(g)
     ELSE DegreeLoop(g, target_user,
            Bfs([[k \in 1 .. size |-> FALSE]
                   EXCEPT ![Pos(start_user, size)] = TRUE],
                [[k \in 1 .. size |-> -1]
                   EXCEPT ![Pos(start_user, size)] = 0],
                <<start_user>>))

\* get_shortest_path, lines 397-402: for neighbor in range(size), from
\* neighbor on
RECURSIVE PathScan(_, _, _, _)
PathScan(g, current, neighbor, b) ==
  IF neighbor >= Len(g) THEN b
  ELSE IF ~CellOK(g, current, neighbor) THEN BfsRaises
  ELSE IF Cell(g, current, neighbor) = 1 /\ ~b.visited[neighbor + 1]
       THEN PathScan(g, current, neighbor + 1,
              Bfs([b.visited EXCEPT ![neighbor + 1] = TRUE],
                  [b.label EXCEPT ![neighbor + 1] = current],
                  Append(b.queue, neighbor)))
       ELSE PathScan(g, current, neighbor + 1, b)

\* get_shortest_path, lines 406-410: the walk back over parent, path so far
RECURSIVE Backtrack(_, _, _)
Backtrack(parent, curr, path) ==
  IF curr = -1 THEN path
  ELSE Backtrack(parent, parent[Pos(curr, Len(parent))], Append(path, curr))

\* path[::-1]
RECURSIVE Reverse(_)
Reverse(s) == IF s = <<>> THEN <<>> ELSE Append(Reverse(Tail(s)), Head(s))

\* get_shortest_path, lines 391-413: while queue, then the reconstruction
RECURSIVE PathLoop(_, _, _)
PathLoop(g, target_user, b) ==
  IF b.queue = <<>> THEN Returns(g, <<>>)
  ELSE LET current == Head(b.queue)
       IN IF current = target_user
          THEN Returns(g, Reverse(Backtrack(b.label, target_user, <<>>)))
          ELSE LET scanned == PathScan(g, current, 0,
                                Bfs(b.visited, b.label, Tail(b.queue)))
               IN IF scanned.raised THEN Raises(g)
                  ELSE PathLoop(g, target_user, scanned)

get_shortest_path(g, start_user, target_user) ==
  LET size == Len(g)
  IN IF start_user >= size \/ target_user >= size THEN Returns(g, <<>>)
     ELSE IF start_user = target_user THEN Returns(g, <<start_user>>)
     ELSE IF ~InRange(start_user, size) THEN Raises(g)
     ELSE PathLoop(g, target_user,
            Bfs([[k \in 1 .. size |-> FALSE]
                   EXCEPT ![Pos(start_user, size)] = TRUE],
                [k \in 1 .. size |-> -1],
                <<start_user>>))

\* calculate_centrality, lines 427-433: for i in range(size), from i on
RECURSIVE CentralityFrom(_, _, _, _, _)
CentralityFrom(g, user_id, i, total_distance, reachable_nodes) ==
  IF i >= Len(g)
  THEN Returns(g, IF total_distance = 0 THEN Zero
                  ELSE Div(reachable_nodes, total_distance))
  ELSE IF i = user_id
       THEN CentralityFrom(g, user_id, i + 1, total_distance, reachable_nodes)
       ELSE LET dist == get_degree_of_separation(g, user_id, i)
            IN IF dist.raised THEN Raises(g)
               ELSE IF dist.ret > 0
                    THEN CentralityFrom(g, user_id, i + 1,
                           total_distance + dist.ret, reachable_nodes + 1)
                    ELSE CentralityFrom(g, user_id, i + 1,
                           total_distance, reachable_nodes)

calculate_centrality(g, user_id) ==
  IF user_id >= Len(g) THEN Returns(g, Zero)
  ELSE CentralityFrom(g, user_id, 0, 0, 0)

(***************************************************************************)
(* Ranking engine.                                                         *)
(***************************************************************************)
\* calculate_influence, lines 508-511: the count of column i, from row j on
RECURSIVE FollowerCount(_, _, _)
FollowerCount(g, i, j) ==
  IF j >= Len(g) THEN 0
  ELSE (IF Cell(g, j, i) = 1 THEN 1 ELSE 0) + FollowerCount(g, i, j + 1)

\* max(follower_counts.values())
MaxOf(counts) ==
  CHOOSE m \in {counts[i] : i \in DOMAIN counts} :
    \A i \in DOMAIN counts : counts[i] <= m


\* calculate_influence dividing by the number of possible followers, N,
\* instead of the largest follower count
calculate_influence_ByN(g) ==
  LET N == Len(g)
      follower_counts == [i \in 0 .. (N - 1) |-> FollowerCount(g, i, 0)]
  IN IF N = 0 THEN Returns(g, [i \in {} |-> Zero])
     ELSE IF MaxOf(follower_counts) = 0
          THEN Returns(g, [i \in 0 .. (N - 1) |-> Zero])
          ELSE Returns(g, [i \in 0 .. (N - 1) |-> Div(follower_counts[i], N)])

\* calculate_influence without lines 518-519: the division by a largest
\* follower count of 0 raises ZeroDivisionError
calculate_influence_NoZeroGuard(g) ==
  LET N == Len(g)
      follower_counts == [i \in 0 .. (N - 1) |-> FollowerCount(g, i, 0)]
  IN IF N = 0 THEN Returns(g, [i \in {} |-> Zero])
     ELSE IF MaxOf(follower_counts) = 0 THEN Raises(g)
          ELSE Returns(g, [i \in 0 .. (N - 1) |->
                             Div(follower_counts[i], MaxOf(follower_counts))])

\* a dict keyed by the node ids 0 .. N-1 is a function on that set
calculate_influence(g) ==
  LET N == Len(g)
      follower_counts == [i \in 0 .. (N - 1) |-> FollowerCount(g, i, 0)]
  IN IF N = 0 THEN Returns(g, [i \in {} |-> Zero])
     ELSE LET max_followers == MaxOf(follower_counts)
          IN IF max_followers = 0
             THEN Returns(g, [i \in 0 .. (N - 1) |-> Zero])
             ELSE Returns(g, [i \in 0 .. (N - 1) |->
                                Div(follower_counts[i], max_followers)])

(***************************************************************************)
(* PageRank.  The scores of an iteration are kept exactly, as integer      *)
(* numerators over one common denominator: [num |-> <<n_0, ...>>, den |->  *)
(* D] stands for scores[i] = n_i / D.  An iteration multiplies D by        *)
(* DampingDen * LCMUpTo(N), which every division of the iteration (by N,   *)
(* by an out-degree, by the denominator of d) divides.                     *)
(***************************************************************************)
\* d = 0.85 = DampingNum / DampingDen
DampingNum == 17
DampingDen == 20

\* iterations; the code runs 20 of them, the model as many as exact
\* fractions in 32-bit integers allow
iterations == 2

\* the least common multiple of 1 .. n
RECURSIVE LCMUpTo(_)
LCMUpTo(n) ==
  IF n <= 1 THEN 1
  ELSE LET l == LCMUpTo(n - 1) IN (l * n) \div GCD(l, n)

\* scores = [1.0 / N] * N
InitialScores(g) == [num |-> [k \in 1 .. Len(g) |-> 1], den |-> Len(g)]

\* Spread where a sink hands its score to every node but itself
Spread_SinkSkipsItself(g, scores, i, j) ==
  LET N == Len(g)
      L == LCMUpTo(N)
      out_degree == SumSeq(g[i + 1])
  IN IF out_degree = 0
     THEN IF i = j THEN 0 ELSE DampingNum * scores.num[i + 1] * (L \div N)
     ELSE IF g[i + 1][j + 1] = 1
          THEN DampingNum * scores.num[i + 1] * (L \div out_degree)
          ELSE 0

\* what new_scores[j] gains from node i in one iteration (lines 465-478), as
\* a numerator over scores.den * DampingDen * LCMUpTo(N)
Spread(g, scores, i, j) ==
  LET N == Len(g)
      L == LCMUpTo(N)
      out_degree == SumSeq(g[i + 1])
  IN IF out_degree = 0
     THEN DampingNum * scores.num[i + 1] * (L \div N)
     ELSE IF g[i + 1][j + 1] = 1
          THEN DampingNum * scores.num[i + 1] * (L \div out_degree)
          ELSE 0

\* the loop over the source nodes, from node i on, seen from node j
RECURSIVE Received(_, _, _, _)
Received(g, scores, j, i) ==
  IF i >= Len(g) THEN 0
  ELSE Spread(g, scores, i, j) + Received(g, scores, j, i + 1)

\* one iteration: new_scores from scores
PagerankStep(g, scores) ==
  LET N == Len(g)
      L == LCMUpTo(N)
      base_score == (DampingDen - DampingNum) * scores.den * (L \div N)
  IN [num |-> [k \in 1 .. N |-> base_score + Received(g, scores, k - 1, 0)],
      den |-> scores.den * DampingDen * L]

\* scores at the end of iteration k
RECURSIVE ScoresAfter(_, _)
ScoresAfter(g, k) ==
  IF k = 0 THEN InitialScores(g) ELSE PagerankStep(g, ScoresAfter(g, k - 1))

\* calculate_pagerank returning the raw scores, without lines 485-492
calculate_pagerank_Raw(g) ==
  LET N == Len(g)
      scores == ScoresAfter(g, iterations)
  IN IF N = 0 THEN Returns(g, [i \in {} |-> Zero])
     ELSE Returns(g, [i \in 0 .. (N - 1) |->
                        Div(scores.num[i + 1], scores.den)])

calculate_pagerank(g) ==
  LET N == Len(g)
      scores == ScoresAfter(g, iterations)
  IN IF N = 0 THEN Returns(g, [i \in {} |-> Zero])
     ELSE LET max_score == MaxOf(scores.num)
          IN IF max_score = 0
             THEN Returns(g, [i \in 0 .. (N - 1) |->
                                Div(scores.num[i + 1], scores.den)])
             ELSE Returns(g, [i \in 0 .. (N - 1) |->
                                Div(scores.num[i + 1], max_score)])
(***************************************************************************)
(* Similarity and recommendation engine.                                   *)
(***************************************************************************)
\* _jaccard_similarity dividing by the size of the first following-set
\* instead of the size of the union
jaccard_similarity_OverFirst(g, user1_id, user2_id) ==
  LET f1 == get_following(g, user1_id)
      f2 == get_following(g, user2_id)
  IN IF f1.raised \/ f2.raised THEN Raises(g)
     ELSE LET following1 == SetOf(f1.ret)
              following2 == SetOf(f2.ret)
              intersection == Cardinality(following1 \cap following2)
          IN IF following1 = {} \/ following2 = {} THEN Returns(g, Zero)
             ELSE Returns(g, Div(intersection, Cardinality(following1)))

\* _jaccard_similarity; a raise of get_following ends the call
jaccard_similarity(g, user1_id, user2_id) ==
  LET f1 == get_following(g, user1_id)
      f2 == get_following(g, user2_id)
  IN IF f1.raised \/ f2.raised THEN Raises(g)
     ELSE LET following1 == SetOf(f1.ret)
              following2 == SetOf(f2.ret)
              intersection == Cardinality(following1 \cap following2)
              union == Cardinality(following1 \cup following2)
          IN IF following1 = {} \/ following2 = {} THEN Returns(g, Zero)
             ELSE IF union = 0 THEN Returns(g, Zero)
             ELSE Returns(g, Div(intersection, union))

(***************************************************************************)
(* Floats of the recommendation engine.  _cosine_similarity divides by a   *)
(* product of two square roots, so its results are not quotients of small  *)
(* integers.  Such a float is kept as <<p, q, k, e>>: the real number      *)
(* (p + q * sqrt(2)) / k the computation aims at, in lowest terms, and the *)
(* side e on which the rounding of the square-root product has left the    *)
(* float (0: on that real, 1: above it, -1: below it).  With interest sets *)
(* of at most two tags no other square root occurs.                        *)
(***************************************************************************)
Abs(x) == IF x < 0 THEN -x ELSE x

\* (p + q * sqrt(2)) / k, rounded to side e, in lowest terms
RootNumber(p, q, k, e) ==
  LET c == GCD(GCD(Abs(p), Abs(q)), k)
  IN <<p \div c, q \div c, k \div c, e>>

\* the sign of the real number p + q * sqrt(2)
SignRoot(p, q) ==
  IF p >= 0 /\ q >= 0 THEN (IF p = 0 /\ q = 0 THEN 0 ELSE 1)
  ELSE IF p <= 0 /\ q <= 0 THEN -1
  ELSE IF p > 0 THEN (IF p * p > 2 * q * q THEN 1 ELSE -1)
  ELSE (IF 2 * q * q > p * p THEN 1 ELSE -1)

\* x > y on two such floats
FloatGreater(x, y) ==
  LET s == SignRoot(x[1] * y[3] - y[1] * x[3], x[2] * y[3] - y[2] * x[3])
  IN s > 0 \/ (s = 0 /\ x[4] > y[4])

\* n ** 0.5 * n ** 0.5 against n in IEEE double arithmetic, for n = 1 .. 9:
\* the product is n itself (0), a float above n (1) or a float below n (-1);
\* e.g. 2 ** 0.5 * 2 ** 0.5 is 2.0000000000000004
SquareOfRootExcess == <<0, 1, -1, 0, 1, -1, 1, 1, 0>>

\* magnitude1 * magnitude2 for sets of n1 and n2 tags, 1 <= n1, n2 <= 2
SqrtProduct(n1, n2) ==
  IF n1 = n2 THEN RootNumber(n1, 0, 1, SquareOfRootExcess[n1])
  ELSE RootNumber(0, 1, 1, 0)

\* intersection / denominator, for an integer intersection >= 0
DivByRoot(intersection, denominator) ==
  IF intersection = 0 THEN RootNumber(0, 0, 1, 0)
  ELSE IF denominator[2] = 0
       THEN RootNumber(intersection * denominator[3], 0, denominator[1],
                       -denominator[4])
       ELSE RootNumber(0, intersection * denominator[3],
                       2 * denominator[2], 0)

\* _cosine_similarity; the denominator is 0 for no pair of non-empty sets
cosine_similarity(interests1, interests2) ==
  IF interests1 = {} \/ interests2 = {} THEN RootNumber(0, 0, 1, 0)
  ELSE LET intersection == Cardinality(interests1 \cap interests2)
           denominator == SqrtProduct(Cardinality(interests1),
                                      Cardinality(interests2))
       IN DivByRoot(intersection, denominator)

\* the weights 0.6 and 0.4 of line 567, in tenths
JaccardWeight == 6
CosineWeight == 4
WeightDen == 10

\* (0.6 * jaccard_score) + (0.4 * cosine_score), jaccard_score a fraction
FinalScore(jaccard_score, cosine_score) ==
  RootNumber(JaccardWeight * jaccard_score[1] * cosine_score[3]
               + CosineWeight * cosine_score[1] * jaccard_score[2],
             CosineWeight * cosine_score[2] * jaccard_score[2],
             WeightDen * jaccard_score[2] * cosine_score[3],
             cosine_score[4])

\* the interest tags of the user table
Tags == {"ai", "art"}

\* what return_user_by_id gives for an id without a row
NotFound == [found |-> FALSE, interests |-> {}]

\* the interests columns of the user rows drawn: no tag, one tag, both tags
InterestSets == {{}, {"ai"}, Tags}

\* what return_user_by_id gives for one id: no row, or a row whose interests
\* column tokenizes to the tags of a set
UserRows ==
  {NotFound} \cup {[found |-> TRUE, interests |-> S] : S \in InterestSets}

\* return_user_by_id(user_id) on the user table users, a function of ids
return_user_by_id(users, user_id) ==
  IF user_id \in DOMAIN users THEN users[user_id] ELSE NotFound

\* recommendations.sort(key=lambda x: x[1], reverse=True): the sort is
\* stable, so an item goes behind the items that score as much
\* an unstable sort: an item goes before the items that score as much
RECURSIVE InsertByScore_BeforeEquals(_, _)
InsertByScore_BeforeEquals(sorted, item) ==
  IF sorted = <<>> THEN <<item>>
  ELSE IF ~FloatGreater(Head(sorted)[2], item[2]) THEN <<item>> \o sorted
  ELSE <<Head(sorted)>> \o InsertByScore_BeforeEquals(Tail(sorted), item)

RECURSIVE InsertByScore(_, _)
InsertByScore(sorted, item) ==
  IF sorted = <<>> THEN <<item>>
  ELSE IF FloatGreater(item[2], Head(sorted)[2]) THEN <<item>> \o sorted
  ELSE <<Head(sorted)>> \o InsertByScore(Tail(sorted), item)

\* the sort without reverse=True: lowest score first
RECURSIVE SortByScore_Ascending(_, _)
SortByScore_Ascending(sorted, rest) ==
  IF rest = <<>> THEN Reverse(sorted)
  ELSE SortByScore_Ascending(InsertByScore(sorted, Head(rest)), Tail(rest))

RECURSIVE SortByScore(_, _)
SortByScore(sorted, rest) ==
  IF rest = <<>> THEN sorted
  ELSE SortByScore(InsertByScore(sorted, Head(rest)), Tail(rest))

\* RecommendFrom where a candidate without a user row ends the scan
RECURSIVE RecommendFrom_StopsAtMiss(_, _, _, _, _, _, _, _)
RecommendFrom_StopsAtMiss(g, users, user_id, threshold, my_interests, my_following, candidate_id, recommendations) ==
  IF candidate_id >= Len(g) THEN Returns(g, recommendations)
  ELSE IF candidate_id = user_id \/ candidate_id \in my_following
       THEN RecommendFrom_StopsAtMiss(g, users, user_id, threshold,
                                      my_interests, my_following,
                                      candidate_id + 1, recommendations)
       ELSE LET jaccard == jaccard_similarity(g, user_id, candidate_id)
                cand_data == return_user_by_id(users, candidate_id)
                final_score ==
                  FinalScore(jaccard.ret,
                             cosine_similarity(my_interests,
                                               cand_data.interests))
            IN IF jaccard.raised THEN Raises(g)
               ELSE IF ~cand_data.found THEN Returns(g, recommendations)
               ELSE RecommendFrom_StopsAtMiss(
                      g, users, user_id, threshold, my_interests,
                      my_following, candidate_id + 1,
                      IF FloatGreater(final_score, threshold)
                      THEN Append(recommendations,
                                  <<candidate_id, final_score>>)
                      ELSE recommendations)

\* RecommendFrom without line 553: a followed candidate is scored as well
RECURSIVE RecommendFrom_KeepsFollowed(_, _, _, _, _, _, _, _)
RecommendFrom_KeepsFollowed(g, users, user_id, threshold, my_interests, my_following, candidate_id, recommendations) ==
  IF candidate_id >= Len(g) THEN Returns(g, recommendations)
  ELSE IF candidate_id = user_id
       THEN RecommendFrom_KeepsFollowed(g, users, user_id, threshold,
                                        my_interests, my_following,
                                        candidate_id + 1, recommendations)
       ELSE LET jaccard == jaccard_similarity(g, user_id, candidate_id)
                cand_data == return_user_by_id(users, candidate_id)
                final_score ==
                  FinalScore(jaccard.ret,
                             cosine_similarity(my_interests,
                                               cand_data.interests))
            IN IF jaccard.raised THEN Raises(g)
               ELSE IF ~cand_data.found
                    THEN RecommendFrom_KeepsFollowed(
                           g, users, user_id, threshold, my_interests,
                           my_following, candidate_id + 1, recommendations)
               ELSE RecommendFrom_KeepsFollowed(
                      g, users, user_id, threshold, my_interests,
                      my_following, candidate_id + 1,
                      IF FloatGreater(final_score, threshold)
                      THEN Append(recommendations,
                                  <<candidate_id, final_score>>)
                      ELSE recommendations)

\* the loop of get_recommendations over the candidates, from candidate_id on
RECURSIVE RecommendFrom(_, _, _, _, _, _, _, _)
RecommendFrom(g, users, user_id, threshold, my_interests, my_following, candidate_id, recommendations) ==
  IF candidate_id >= Len(g) THEN Returns(g, recommendations)
  ELSE IF candidate_id = user_id \/ candidate_id \in my_following
       THEN RecommendFrom(g, users, user_id, threshold, my_interests,
                          my_following, candidate_id + 1, recommendations)
       ELSE LET jaccard == jaccard_similarity(g, user_id, candidate_id)
                cand_data == return_user_by_id(users, candidate_id)
                final_score ==
                  FinalScore(jaccard.ret,
                             cosine_similarity(my_interests,
                                               cand_data.interests))
            IN IF jaccard.raised THEN Raises(g)
               ELSE IF ~cand_data.found
                    THEN RecommendFrom(g, users, user_id, threshold,
                                       my_interests, my_following,
                                       candidate_id + 1, recommendations)
               ELSE RecommendFrom(
                      g, users, user_id, threshold, my_interests,
                      my_following, candidate_id + 1,
                      IF FloatGreater(final_score, threshold)
                      THEN Append(recommendations,
                                  <<candidate_id, final_score>>)
                      ELSE recommendations)

\* get_recommendations, the user table being what return_user_by_id reads
get_recommendations(g, users, user_id, threshold) ==
  LET user_data == return_user_by_id(users, user_id)
      following == get_following(g, user_id)
  IN IF user_id >= Len(g) THEN Returns(g, <<>>)
     ELSE IF ~user_data.found THEN Returns(g, <<>>)
     ELSE IF following.raised THEN Raises(g)
     ELSE LET scan == RecommendFrom(g, users, user_id, threshold,
                                    user_data.interests,
                                    SetOf(following.ret), 0, <<>>)
          IN IF scan.raised THEN scan
             ELSE Returns(g, SortByScore(<<>>, scan.ret))

(***************************************************************************)
(* The store as a state machine.                                           *)
(***************************************************************************)
\* the class and its instance once SocialNetwork() has returned: one object
\* was made, _instance is that object, its _initialized is True, _lock is
\* free; inits counts the executions of line 40 and reset tells whether one
\* of them replaced a matrix that had nodes
Constructed ==
  [objects |-> 1, instance |-> 1, initialized |-> "True", lock |-> 0,
   inits |-> 1, reset |-> FALSE]

\* all calls are made by one thread, one after the other
NoThreads == <<>>

\* the database as the store sees it: the largest user_id of the user
\* table (0 when it is empty) and the rows of the follow table; the calls
\* made on the store directly leave it alone
NoDb == [last_user_id |-> 0, follow |-> {}]

\* a call of op with args whose outcome is res
Call(op, args, res) ==
  /\ graph' = res.graph
  /\ lastOp' = [op |-> op, args |-> args]
  /\ ret' = res.ret
  /\ raised' = res.raised
  /\ changed' = (res.graph # graph)
  /\ UNCHANGED <<threads, cls, db>>

\* the follow rows get_all_follows can return
Rows == Ids \X Ids

\* the tables the store is rebuilt from here: an empty one, or one follow row
\* (every further cell is set through add_edge)
Connections == {<<>>} \cup {<<row>> : row \in Rows}

\* __init__: graph = []
Init ==
  /\ graph = <<>>
  /\ lastOp = [op |-> "__init__", args |-> <<>>]
  /\ ret = None
  /\ raised = FALSE
  /\ changed = FALSE
  /\ threads = NoThreads
  /\ cls = Constructed
  /\ db = NoDb

InitializeGraph ==
  \E max_user_id \in 0 .. MaxId, connections \in Connections :
    Call("initialize_graph", <<max_user_id, connections>>,
         initialize_graph(max_user_id, connections))

CreateNode ==
  \E user_id \in Ids :
    /\ user_id <= MaxId
    /\ Call("create_node", <<user_id>>, create_node(graph, user_id))

RemoveNode ==
  \E user_id \in Ids :
    Call("remove_node", <<user_id>>, remove_node(graph, user_id))

AddEdge ==
  \E from_user \in Ids, to_user \in Ids :
    LET res == add_edge(graph, from_user, to_user)
    IN /\ CountConnections(res.graph) <= MaxEdges
       /\ Call("add_edge", <<from_user, to_user>>, res)

RemoveEdge ==
  \E from_user \in Ids, to_user \in Ids :
    Call("remove_edge", <<from_user, to_user>>,
         remove_edge(graph, from_user, to_user))

ClearGraph == Call("clear_graph", <<>>, clear_graph(graph))

Next ==
  \/ InitializeGraph
  \/ CreateNode
  \/ RemoveNode
  \/ AddEdge
  \/ RemoveEdge
  \/ ClearGraph

Spec == Init /\ [][Next]_vars

(***************************************************************************)
(* The read-only engines applied to a stored matrix.                       *)
(***************************************************************************)
\* the sets of at most k elements of S
RECURSIVE SubsetsUpTo(_, _)
SubsetsUpTo(S, k) ==
  IF k = 0 THEN {{}}
  ELSE LET P == SubsetsUpTo(S, k - 1)
       IN P \cup {p \cup {c} : p \in P, c \in S}

\* the n x n matrix whose 1-cells are E
MatrixOf(n, E) ==
  [i \in 1 .. n |-> [j \in 1 .. n |-> IF <<i, j>> \in E THEN 1 ELSE 0]]

\* the matrices the store can hold (any cell can be set: see add_edge with a
\* negative id), up to QSize nodes and QEdges follows
Matrices ==
  UNION {{MatrixOf(n, E) : E \in SubsetsUpTo((1 .. n) \X (1 .. n), QEdges)} :
           n \in 0 .. QSize}

\* ids handed to the read-only engines
QIds == (-1) .. QSize

InitQ ==
  /\ graph \in Matrices
  /\ lastOp = [op |-> "given", args |-> <<>>]
  /\ ret = None
  /\ raised = FALSE
  /\ changed = FALSE
  /\ threads = NoThreads
  /\ cls = Constructed
  /\ db = NoDb

\* each engine is applied to the matrix as given
IsEdge ==
  /\ lastOp.op = "given"
  /\ \E user1 \in QIds, user2 \in QIds :
       Call("is_edge", <<user1, user2>>, is_edge(graph, user1, user2))

GetFollowers ==
  /\ lastOp.op = "given"
  /\ \E user_id \in QIds :
       Call("get_followers", <<user_id>>, get_followers(graph, user_id))

GetFollowing ==
  /\ lastOp.op = "given"
  /\ \E user_id \in QIds :
       Call("get_following", <<user_id>>, get_following(graph, user_id))

GetDegreeOfSeparation ==
  /\ lastOp.op = "given"
  /\ \E start_user \in QIds, target_user \in QIds :
       Call("get_degree_of_separation", <<start_user, target_user>>,
              get_degree_of_separation(graph, start_user, target_user))

GetShortestPath ==
  /\ lastOp.op = "given"
  /\ \E start_user \in QIds, target_user \in QIds :
       Call("get_shortest_path", <<start_user, target_user>>,
              get_shortest_path(graph, start_user, target_user))

CalculateCentrality ==
  /\ lastOp.op = "given"
  /\ \E user_id \in QIds :
       Call("calculate_centrality", <<user_id>>,
              calculate_centrality(graph, user_id))

CalculateInfluence ==
  /\ lastOp.op = "given"
  /\ Call("calculate_influence", <<>>, calculate_influence(graph))

CalculatePagerank ==
  /\ lastOp.op = "given"
  /\ Call("calculate_pagerank", <<>>, calculate_pagerank(graph))

JaccardSimilarity ==
  /\ lastOp.op = "given"
  /\ \E user1_id \in QIds, user2_id \in QIds :
       Call("_jaccard_similarity", <<user1_id, user2_id>>,
              jaccard_similarity(graph, user1_id, user2_id))

GetMutualFollowers ==
  /\ lastOp.op = "given"
  /\ \E user1 \in QIds, user2 \in QIds :
       Call("get_mutual_followers", <<user1, user2>>,
              get_mutual_followers(graph, user1, user2))

GetMutualFollowing ==
  /\ lastOp.op = "given"
  /\ \E user1 \in QIds, user2 \in QIds :
       Call("get_mutual_following", <<user1, user2>>,
              get_mutual_following(graph, user1, user2))

AreMutualFollowers ==
  /\ lastOp.op = "given"
  /\ \E user1 \in QIds, user2 \in QIds :
       Call("are_mutual_followers", <<user1, user2>>,
              are_mutual_followers(graph, user1, user2))

\* the user tables drawn for a stored matrix of n nodes: each user has no
\* row, or a row with the one interest "ai"
TablesOfOneTag(n) ==
  [0 .. (n - 1) -> {NotFound, [found |-> TRUE, interests |-> {"ai"}]}]

\* get_recommendations(user_id) with the default threshold 0.0, on any
\* stored matrix and with any id
RecommendOnStored ==
  /\ lastOp.op = "given"
  /\ \E users \in TablesOfOneTag(Len(graph)), user_id \in QIds :
       Call("get_recommendations",
            <<user_id, RootNumber(0, 0, 1, 0), users>>,
            get_recommendations(graph, users, user_id,
                                RootNumber(0, 0, 1, 0)))

NextQ ==
  \/ IsEdge
  \/ GetFollowers
  \/ GetFollowing
  \/ GetDegreeOfSeparation
  \/ GetShortestPath
  \/ CalculateCentrality
  \/ CalculateInfluence
  \/ CalculatePagerank
  \/ JaccardSimilarity
  \/ GetMutualFollowers
  \/ GetMutualFollowing
  \/ AreMutualFollowers
  \/ RecommendOnStored

SpecQ == InitQ /\ [][NextQ]_vars

(***************************************************************************)
(* The recommendation engine applied to a stored matrix and a user table.  *)
(***************************************************************************)
\* largest matrix dimension drawn for the recommendation engine
RSize == 3
\* largest number of follows of a matrix drawn for the recommendation engine
REdges == 2

\* the matrices drawn: those without a self-follow, which is what the store
\* holds when every follow was made with the ids of two users
RMatrices ==
  UNION {{MatrixOf(n, E) :
            E \in SubsetsUpTo({c \in (1 .. n) \X (1 .. n) : c[1] # c[2]},
                              REdges)} : n \in 0 .. RSize}

\* the user tables return_user_by_id can read for a matrix of n nodes
UserTables(n) == [0 .. (n - 1) -> UserRows]

\* the thresholds handed to get_recommendations: the default 0.0, and 0.4
Thresholds == {RootNumber(0, 0, 1, 0), RootNumber(2, 0, 5, 0)}

InitR ==
  /\ graph \in RMatrices
  /\ lastOp = [op |-> "given", args |-> <<>>]
  /\ ret = None
  /\ raised = FALSE
  /\ changed = FALSE
  /\ threads = NoThreads
  /\ cls = Constructed
  /\ db = NoDb

GetRecommendations ==
  /\ lastOp.op = "given"
  /\ \E users \in UserTables(Len(graph)), user_id \in 0 .. (RSize - 1),
        threshold \in Thresholds :
       Call("get_recommendations", <<user_id, threshold, users>>,
              get_recommendations(graph, users, user_id, threshold))

CosineSimilarity ==
  /\ lastOp.op = "given"
  /\ \E interests1 \in SUBSET Tags, interests2 \in SUBSET Tags :
       Call("_cosine_similarity", <<interests1, interests2>>,
              Returns(graph, cosine_similarity(interests1, interests2)))

NextR ==
  \/ GetRecommendations
  \/ CosineSimilarity

SpecR == InitR /\ [][NextR]_vars

(***************************************************************************)
(* One mutating call applied to a stored matrix.                           *)
(***************************************************************************)
InitM ==
  /\ graph \in Matrices
  /\ lastOp = [op |-> "given", args |-> <<>>]
  /\ ret = None
  /\ raised = FALSE
  /\ changed = FALSE
  /\ threads = NoThreads
  /\ cls = Constructed
  /\ db = NoDb

CreateNodeOnStored ==
  /\ lastOp.op = "given"
  /\ CreateNode

RemoveNodeOnStored ==
  /\ lastOp.op = "given"
  /\ RemoveNode

NextM ==
  \/ CreateNodeOnStored
  \/ RemoveNodeOnStored

SpecM == InitM /\ [][NextM]_vars

(***************************************************************************)
(* The store rebuilt from the follow table, over a stored matrix.          *)
(***************************************************************************)
\* largest number of follow rows get_all_follows returns here
MaxRows == 2

\* the follow tables get_all_follows can return
Tables == UNION {[1 .. n -> Rows] : n \in 0 .. MaxRows}

InitializeGraphOnStored ==
  /\ lastOp.op = "given"
  /\ \E max_user_id \in 0 .. MaxId, connections \in Tables :
       Call("initialize_graph", <<max_user_id, connections>>,
            initialize_graph(max_user_id, connections))

NextB == InitializeGraphOnStored

SpecB == InitM /\ [][NextB]_vars

(***************************************************************************)
(* The two traversals, one turn of their loops at a time.  threads[1] is   *)
(* the frame of the call: its position, its locals, for each node the      *)
(* number of times queue.append was called with it, and the number of      *)
(* turns the while loop over the queue has taken.                          *)
(***************************************************************************)
\* ids handed to the traversals: the nodes, and QSize (at or beyond every
\* matrix)
TIds == 0 .. QSize

\* the frame before the call
NoCall ==
  [pc |-> "idle", target |-> 0, visited |-> <<>>, label |-> <<>>,
   queue |-> <<>>, enqueued |-> <<>>, turns |-> 0, path |-> <<>>,
   curr |-> 0]

\* Started without lines 352 and 387: the start is not marked visited
Started_StartNotVisited(pc, start, target, size, label) ==
  [pc |-> pc, target |-> target,
   visited |-> [k \in 1 .. size |-> FALSE],
   label |-> label,
   queue |-> <<start>>,
   enqueued |-> [k \in 1 .. size |-> IF k = start + 1 THEN 1 ELSE 0],
   turns |-> 0, path |-> <<>>, curr |-> 0]

\* the frame at the while loop of a traversal from start: lines 348-354 and
\* 382-388, the label of every node being -1 but for distance[start] = 0
Started(pc, start, target, size, label) ==
  [pc |-> pc, target |-> target,
   visited |-> [k \in 1 .. size |-> k = start + 1],
   label |-> label,
   queue |-> <<start>>,
   enqueued |-> [k \in 1 .. size |-> IF k = start + 1 THEN 1 ELSE 0],
   turns |-> 0, path |-> <<>>, curr |-> 0]

\* the number of times id occurs in the list s
Occurrences(s, id) == Cardinality({k \in DOMAIN s : s[k] = id})

\* the frame after one for loop over the neighbors: scanned is the BFS
\* state it leaves, the nodes behind the first waiting of them were appended
AfterScan(f, waiting, scanned) ==
  [f EXCEPT !.visited = scanned.visited,
            !.label = scanned.label,
            !.queue = scanned.queue,
            !.enqueued =
               [k \in DOMAIN f.enqueued |->
                  f.enqueued[k]
                  + Occurrences(SubSeq(scanned.queue, waiting + 1,
                                       Len(scanned.queue)), k - 1)]]

InitT ==
  /\ graph \in Matrices
  /\ lastOp = [op |-> "given", args |-> <<>>]
  /\ ret = None
  /\ raised = FALSE
  /\ changed = FALSE
  /\ threads = <<NoCall>>
  /\ cls = Constructed
  /\ db = NoDb

\* a turn of a loop of the call: its frame becomes f, and it returns r when
\* it ends
Turn(f, r) ==
  /\ threads' = <<[f EXCEPT !.turns = IF f.pc = threads[1].pc
                                      THEN @ + 1 ELSE 0]>>
  /\ ret' = r
  /\ UNCHANGED <<graph, lastOp, raised, changed, cls, db>>

\* get_degree_of_separation, lines 342-354
BeginDegree ==
  /\ threads[1].pc = "idle"
  /\ \E start_user \in TIds, target_user \in TIds :
       LET size == Len(graph)
       IN /\ lastOp' = [op |-> "get_degree_of_separation",
                        args |-> <<start_user, target_user>>]
          /\ IF start_user >= size \/ target_user >= size
             THEN /\ threads' = <<[NoCall EXCEPT !.pc = "done"]>>
                  /\ ret' = -1
             ELSE IF start_user = target_user
             THEN /\ threads' = <<[NoCall EXCEPT !.pc = "done"]>>
                  /\ ret' = 0
             ELSE /\ threads' =
                       <<Started("degree_356", start_user, target_user, size,
                                 [k \in 1 .. size |->
                                    IF k = start_user + 1 THEN 0 ELSE -1])>>
                  /\ ret' = None
          /\ UNCHANGED <<graph, raised, changed, cls, db>>

\* get_degree_of_separation, lines 356-368: one turn of while queue
DegreeTurn ==
  /\ threads[1].pc = "degree_356"
  /\ LET f == threads[1]
     IN IF f.queue = <<>> THEN Turn([f EXCEPT !.pc = "done"], -1)
        ELSE LET current == Head(f.queue)
                 scanned == DegreeScan(graph, current, 0,
                              Bfs(f.visited, f.label, Tail(f.queue)))
             IN IF current = f.target
                THEN Turn([f EXCEPT !.pc = "done", !.queue = Tail(f.queue)],
                          f.label[current + 1])
                ELSE Turn(AfterScan(f, Len(f.queue) - 1, scanned), None)

\* get_shortest_path, lines 376-390
BeginPath ==
  /\ threads[1].pc = "idle"
  /\ \E start_user \in TIds, target_user \in TIds :
       LET size == Len(graph)
       IN /\ lastOp' = [op |-> "get_shortest_path",
                        args |-> <<start_user, target_user>>]
          /\ IF start_user >= size \/ target_user >= size
             THEN /\ threads' = <<[NoCall EXCEPT !.pc = "done"]>>
                  /\ ret' = <<>>
             ELSE IF start_user = target_user
             THEN /\ threads' = <<[NoCall EXCEPT !.pc = "done"]>>
                  /\ ret' = <<start_user>>
             ELSE /\ threads' =
                       <<Started("path_391", start_user, target_user, size,
                                 [k \in 1 .. size |-> -1])>>
                  /\ ret' = None
          /\ UNCHANGED <<graph, raised, changed, cls, db>>

\* get_shortest_path, lines 391-407 and 413: one turn of while queue
PathTurn ==
  /\ threads[1].pc = "path_391"
  /\ LET f == threads[1]
     IN IF f.queue = <<>> THEN Turn([f EXCEPT !.pc = "done"], <<>>)
        ELSE LET current == Head(f.queue)
                 scanned == PathScan(graph, current, 0,
                              Bfs(f.visited, f.label, Tail(f.queue)))
             IN IF current = f.target
                THEN Turn([f EXCEPT !.pc = "path_408",
                                    !.queue = Tail(f.queue),
                                    !.curr = f.target],
                          None)
                ELSE Turn(AfterScan(f, Len(f.queue) - 1, scanned), None)

\* get_shortest_path, lines 408-411: one turn of while curr != -1
PathBack ==
  /\ threads[1].pc = "path_408"
  /\ LET f == threads[1]
     IN IF f.curr = -1 THEN Turn([f EXCEPT !.pc = "done"], Reverse(f.path))
        ELSE Turn([f EXCEPT !.path = Append(f.path, f.curr),
                            !.curr = f.label[f.curr + 1]],
                  None)

NextT ==
  \/ BeginDegree
  \/ DegreeTurn
  \/ BeginPath
  \/ PathTurn
  \/ PathBack

SpecT == InitT /\ [][NextT]_vars

(***************************************************************************)
(* The recommendation engine over user tables in which every id has a row: *)
(* the lists it returns then depend on the scores alone.                   *)
(***************************************************************************)
\* the user tables of n nodes in which return_user_by_id finds every id
TablesOfRows(n) == [0 .. (n - 1) -> UserRows \ {NotFound}]

RecommendAmongRows ==
  /\ lastOp.op = "given"
  /\ \E users \in TablesOfRows(Len(graph)), user_id \in 0 .. (RSize - 1),
        threshold \in Thresholds :
       Call("get_recommendations", <<user_id, threshold, users>>,
              get_recommendations(graph, users, user_id, threshold))

NextO == RecommendAmongRows

SpecO == InitR /\ [][NextO]_vars

(***************************************************************************)
(* The store as the cache of the follow table.  USER.follow, USER.unfollow *)
(* and System.register_user write the database through db_manager and     *)
(* then the store; a db_manager call fails (returns False, or None for     *)
(* add_user) when get_connection returns None or sqlite3 raises an Error.  *)
(* The follow table is held as the set of its rows: the store is rebuilt   *)
(* the same way from the rows in any order and with any repetitions.       *)
(***************************************************************************)
\* largest number of registered users
MaxUsers == 2

\* get_all_follows: the rows of the follow table
RECURSIVE get_all_follows(_)
get_all_follows(d) ==
  IF d.follow = {} THEN <<>>
  ELSE LET first == CHOOSE r \in d.follow :
                      \A s \in d.follow :
                        r[1] < s[1] \/ (r[1] = s[1] /\ r[2] <= s[2])
       IN <<first>> \o get_all_follows([d EXCEPT !.follow = @ \ {first}])

\* return_last_user_id: the largest user_id, 0 when there is no user
return_last_user_id(d) == d.last_user_id

\* add_user: a new row of the user table, its rowid returned; the
\* Optional[int] is the set of at most one id, None the empty one
add_user(d, failed) ==
  IF failed THEN [db |-> d, ret |-> {}]
  ELSE [db |-> [d EXCEPT !.last_user_id = @ + 1],
        ret |-> {d.last_user_id + 1}]

\* add_follow: INSERT INTO follow, True; False when the call fails
add_follow(d, follower_id, followed_id, failed) ==
  IF failed THEN [db |-> d, ret |-> FALSE]
  ELSE [db |-> [d EXCEPT !.follow = @ \cup {<<follower_id, followed_id>>}],
        ret |-> TRUE]

\* delete_follow: False when the call fails or no such row exists, else
\* DELETE FROM follow and True
delete_follow(d, follower_id, followed_id, failed) ==
  IF failed THEN [db |-> d, ret |-> FALSE]
  ELSE IF <<follower_id, followed_id>> \notin d.follow
       THEN [db |-> d, ret |-> FALSE]
  ELSE [db |-> [d EXCEPT !.follow = @ \ {<<follower_id, followed_id>>}],
        ret |-> TRUE]

\* the ids of the registered users
Registered(d) == 1 .. d.last_user_id

\* the databases the application starts on
Databases ==
  UNION {{[last_user_id |-> n, follow |-> t] :
            t \in SUBSET ((1 .. n) \X (1 .. n))} : n \in 0 .. MaxUsers}

\* SocialMediaApp._initialize: the store rebuilt from the database
InitU ==
  /\ db \in Databases
  /\ graph = initialize_graph(return_last_user_id(db),
                              get_all_follows(db)).graph
  /\ lastOp = [op |-> "initialize_graph", args |-> <<>>]
  /\ ret = None
  /\ raised = FALSE
  /\ changed = FALSE
  /\ threads = NoThreads
  /\ cls = Constructed

\* a call of the application layer: the database written, then the store
CallU(op, args, stored, res) ==
  /\ db' = stored.db
  /\ graph' = res.graph
  /\ lastOp' = [op |-> op, args |-> args]
  /\ ret' = None
  /\ raised' = res.raised
  /\ changed' = (res.graph # graph)
  /\ UNCHANGED <<threads, cls>>

\* USER.follow: add_follow, its result dropped, then add_edge
Follow ==
  \E self \in Registered(db), other_user_id \in Registered(db),
     failed \in BOOLEAN :
    CallU("follow", <<self, other_user_id, failed>>,
          add_follow(db, self, other_user_id, failed),
          add_edge(graph, self, other_user_id))

\* USER.unfollow: delete_follow, its result dropped, then remove_edge
Unfollow ==
  \E self \in Registered(db), other_user_id \in Registered(db),
     failed \in BOOLEAN :
    CallU("unfollow", <<self, other_user_id, failed>>,
          delete_follow(db, self, other_user_id, failed),
          remove_edge(graph, self, other_user_id))

\* System.register_user: nothing when the username is taken; add_user, and
\* create_node when it returned an id
RegisterUser ==
  /\ db.last_user_id < MaxUsers
  /\ \E taken \in BOOLEAN, failed \in BOOLEAN :
       LET stored == IF taken THEN [db |-> db, ret |-> {}]
                     ELSE add_user(db, failed)
       IN CallU("register_user", <<taken, failed>>, stored,
                IF stored.ret # {}
                THEN create_node(graph, CHOOSE user_id \in stored.ret : TRUE)
                ELSE Returns(graph, None))

NextU ==
  \/ Follow
  \/ Unfollow
  \/ RegisterUser

SpecU == InitU /\ [][NextU]_vars

(***************************************************************************)
(* Concurrent callers.  No method of the store takes a lock, and CPython   *)
(* can switch threads between any two statements, so a call is a sequence  *)
(* of steps, one per statement that reads or writes self.graph; a pc names *)
(* the method and the line of the statement the thread executes next.      *)
(***************************************************************************)
\* number of concurrent threads
MaxThreads == 2
\* largest user id the concurrent threads pass
MaxNode == 1

Threads == 1 .. MaxThreads

\* ids handed to the concurrent calls
CIds == 0 .. MaxNode

\* a thread outside a call: before its call, after it has returned, after it
\* has raised; a, b are the arguments of the call, size and k its locals
Idle == [pc |-> "idle", a |-> 0, b |-> 0, size |-> 0, k |-> 0]
Finished == [pc |-> "done", a |-> 0, b |-> 0, size |-> 0, k |-> 0]
Failed == [pc |-> "raised", a |-> 0, b |-> 0, size |-> 0, k |-> 0]

InitC ==
  /\ graph = <<>>
  /\ lastOp = [op |-> "threads", args |-> <<>>]
  /\ ret = None
  /\ raised = FALSE
  /\ changed = FALSE
  /\ threads = [t \in Threads |-> Idle]
  /\ cls = Constructed
  /\ db = NoDb

\* thread t executes one statement: it becomes th and leaves the matrix g;
\* r tells that the statement raised IndexError
ThreadStep(t, th, g, r) ==
  /\ threads' = [threads EXCEPT ![t] = th]
  /\ graph' = g
  /\ raised' = (raised \/ r)
  /\ changed' = (g # graph)
  /\ UNCHANGED <<lastOp, ret, cls, db>>

BeginCreateNode ==
  \E t \in Threads, user_id \in CIds :
    /\ threads[t].pc = "idle"
    /\ ThreadStep(t, [Idle EXCEPT !.pc = "create_node_85", !.a = user_id],
                  graph, FALSE)

\* lines 85-89: current_size = len(self.graph); if user_id >= current_size
CreateNodeSize ==
  \E t \in Threads :
    LET th == threads[t]
    IN /\ th.pc = "create_node_85"
       /\ IF th.a >= Len(graph)
          THEN ThreadStep(t, [th EXCEPT !.pc = "create_node_92",
                                        !.size = Len(graph), !.k = 0],
                          graph, FALSE)
          ELSE ThreadStep(t, Finished, graph, FALSE)

\* lines 92-93: one pass of 'for row in self.graph', the list iterator
\* standing at index k of the list as it is now
CreateNodeExtend ==
  \E t \in Threads :
    LET th == threads[t]
        new_size == th.a + 1
    IN /\ th.pc = "create_node_92"
       /\ IF th.k < Len(graph)
          THEN LET row == graph[th.k + 1]
               IN ThreadStep(t, [th EXCEPT !.k = th.k + 1],
                             [graph EXCEPT ![th.k + 1] =
                                row \o Zeros(new_size - Len(row))],
                             FALSE)
          ELSE ThreadStep(t, [th EXCEPT !.pc = "create_node_96", !.k = 0],
                          graph, FALSE)

\* lines 96-97: one pass of 'for _ in range(new_size - current_size)'
CreateNodeAppend ==
  \E t \in Threads :
    LET th == threads[t]
        new_size == th.a + 1
    IN /\ th.pc = "create_node_96"
       /\ IF th.k < new_size - th.size
          THEN ThreadStep(t, [th EXCEPT !.k = th.k + 1],
                          Append(graph, Zeros(new_size)), FALSE)
          ELSE ThreadStep(t, Finished, graph, FALSE)

BeginAddEdge ==
  \E t \in Threads, from_user \in CIds, to_user \in CIds :
    /\ threads[t].pc = "idle"
    /\ ThreadStep(t, [Idle EXCEPT !.pc = "add_edge_129", !.a = from_user,
                                  !.b = to_user],
                  graph, FALSE)

\* lines 129-135: the two guards
AddEdgeCheck ==
  \E t \in Threads :
    LET th == threads[t]
    IN /\ th.pc = "add_edge_129"
       /\ IF th.a >= Len(graph) \/ th.b >= Len(graph) \/ th.a = th.b
          THEN ThreadStep(t, Finished, graph, FALSE)
          ELSE ThreadStep(t, [th EXCEPT !.pc = "add_edge_137"], graph, FALSE)

\* line 137: self.graph[from_user][to_user] = 1
AddEdgeSet ==
  \E t \in Threads :
    LET th == threads[t]
    IN /\ th.pc = "add_edge_137"
       /\ IF CellOK(graph, th.a, th.b)
          THEN ThreadStep(t, Finished, SetCell(graph, th.a, th.b, 1), FALSE)
          ELSE ThreadStep(t, Failed, graph, TRUE)

BeginGetFollowing ==
  \E t \in Threads, user_id \in CIds :
    /\ threads[t].pc = "idle"
    /\ ThreadStep(t, [Idle EXCEPT !.pc = "get_following_207", !.a = user_id],
                  graph, FALSE)

\* line 207: if user_id >= len(self.graph): return []
GetFollowingCheck ==
  \E t \in Threads :
    LET th == threads[t]
    IN /\ th.pc = "get_following_207"
       /\ IF th.a >= Len(graph)
          THEN ThreadStep(t, Finished, graph, FALSE)
          ELSE ThreadStep(t, [th EXCEPT !.pc = "get_following_211"],
                          graph, FALSE)

\* line 211: range(len(self.graph)) is evaluated once
GetFollowingRange ==
  \E t \in Threads :
    LET th == threads[t]
    IN /\ th.pc = "get_following_211"
       /\ ThreadStep(t, [th EXCEPT !.pc = "get_following_212",
                                   !.size = Len(graph), !.k = 0],
                     graph, FALSE)

\* line 212: one read of self.graph[user_id][j], j = k (the list the call
\* returns is local to the thread and is left out)
GetFollowingRead ==
  \E t \in Threads :
    LET th == threads[t]
    IN /\ th.pc = "get_following_212"
       /\ IF th.k >= th.size THEN ThreadStep(t, Finished, graph, FALSE)
          ELSE IF CellOK(graph, th.a, th.k)
               THEN ThreadStep(t, [th EXCEPT !.k = th.k + 1], graph, FALSE)
               ELSE ThreadStep(t, Failed, graph, TRUE)

NextC ==
  \/ BeginCreateNode
  \/ CreateNodeSize
  \/ CreateNodeExtend
  \/ CreateNodeAppend
  \/ BeginAddEdge
  \/ AddEdgeCheck
  \/ AddEdgeSet
  \/ BeginGetFollowing
  \/ GetFollowingCheck
  \/ GetFollowingRange
  \/ GetFollowingRead

SpecC == InitC /\ [][NextC]_vars

(***************************************************************************)
(* Concurrent constructions.  SocialNetwork(), get_network() and           *)
(* get_social_network() all evaluate cls(): __new__ (lines 22-27), then    *)
(* __init__ (lines 34-41) on the object __new__ returned.  Only lines      *)
(* 24-26 run under _lock.                                                  *)
(***************************************************************************)
\* the class before the first construction: no object, _instance is None (0)
Unconstructed ==
  [objects |-> 0, instance |-> 0, initialized |-> "unset", lock |-> 0,
   inits |-> 0, reset |-> FALSE]

\* a caller before its call; self is the object its call has got (0: none)
Caller == [pc |-> "idle", self |-> 0]

InitS ==
  /\ graph = <<>>
  /\ lastOp = [op |-> "threads", args |-> <<>>]
  /\ ret = None
  /\ raised = FALSE
  /\ changed = FALSE
  /\ threads = [t \in Threads |-> Caller]
  /\ cls = Unconstructed
  /\ db = NoDb

\* caller t executes one statement: it becomes th and leaves the class c
\* and the matrix g; r tells that the statement raised AttributeError
ConstructStep(t, th, c, g, r) ==
  /\ threads' = [threads EXCEPT ![t] = th]
  /\ cls' = c
  /\ graph' = g
  /\ raised' = (raised \/ r)
  /\ changed' = (g # graph)
  /\ UNCHANGED <<lastOp, ret, db>>

\* the pc of caller t becomes pc
At(t, pc) == [threads[t] EXCEPT !.pc = pc]

BeginConstruct ==
  \E t \in Threads :
    /\ threads[t].pc = "idle"
    /\ ConstructStep(t, At(t, "new_22"), cls, graph, FALSE)

\* line 22: if cls._instance is None, outside the lock
NewCheck ==
  \E t \in Threads :
    /\ threads[t].pc = "new_22"
    /\ ConstructStep(t, At(t, IF cls.instance = 0 THEN "new_23" ELSE "new_27"),
                     cls, graph, FALSE)

\* line 23: with cls._lock, which waits until the lock is free
NewAcquire ==
  \E t \in Threads :
    /\ threads[t].pc = "new_23"
    /\ cls.lock = 0
    /\ ConstructStep(t, At(t, "new_24"), [cls EXCEPT !.lock = t], graph,
                     FALSE)

\* line 24: if cls._instance is None, under the lock; leaving the with
\* block releases the lock
NewCheckLocked ==
  \E t \in Threads :
    /\ threads[t].pc = "new_24"
    /\ IF cls.instance = 0
       THEN ConstructStep(t, At(t, "new_25"), cls, graph, FALSE)
       ELSE ConstructStep(t, At(t, "new_27"), [cls EXCEPT !.lock = 0], graph,
                          FALSE)

\* line 25: cls._instance = super().__new__(cls), an object without any
\* attribute yet
NewCreate ==
  \E t \in Threads :
    /\ threads[t].pc = "new_25"
    /\ ConstructStep(t, At(t, "new_26"),
                     [cls EXCEPT !.objects = cls.objects + 1,
                                 !.instance = cls.objects + 1,
                                 !.initialized = "unset"],
                     graph, FALSE)

\* line 26: cls._instance._initialized = False, then the lock is released
NewSetFlag ==
  \E t \in Threads :
    /\ threads[t].pc = "new_26"
    /\ ConstructStep(t, At(t, "new_27"),
                     [cls EXCEPT !.initialized = "False", !.lock = 0],
                     graph, FALSE)

\* line 27: return cls._instance; __init__ is then called on it
NewReturn ==
  \E t \in Threads :
    /\ threads[t].pc = "new_27"
    /\ ConstructStep(t, [pc |-> "init_34", self |-> cls.instance], cls, graph,
                     FALSE)

\* lines 34-35: if self._initialized: return; reading the attribute before
\* line 26 has set it raises AttributeError
InitCheck ==
  \E t \in Threads :
    /\ threads[t].pc = "init_34"
    /\ IF cls.initialized = "unset"
       THEN ConstructStep(t, [pc |-> "raised", self |-> 0], cls, graph, TRUE)
       ELSE ConstructStep(t, At(t, IF cls.initialized = "True"
                                   THEN "done" ELSE "init_40"),
                          cls, graph, FALSE)

\* line 40: self.graph = []
InitGraph ==
  \E t \in Threads :
    /\ threads[t].pc = "init_40"
    /\ ConstructStep(t, At(t, "init_41"),
                     [cls EXCEPT !.inits = cls.inits + 1,
                                 !.reset = cls.reset \/ (graph # <<>>)],
                     <<>>, FALSE)

\* line 41: self._initialized = True
InitFlag ==
  \E t \in Threads :
    /\ threads[t].pc = "init_41"
    /\ ConstructStep(t, At(t, "done"), [cls EXCEPT !.initialized = "True"],
                     graph, FALSE)

\* a caller whose construction has returned adds a node through its
\* instance
Populate ==
  \E t \in Threads, user_id \in CIds :
    /\ threads[t].pc = "done"
    /\ ConstructStep(t, threads[t], cls, create_node(graph, user_id).graph,
                     FALSE)

NextS ==
  \/ BeginConstruct
  \/ NewCheck
  \/ NewAcquire
  \/ NewCheckLocked
  \/ NewCreate
  \/ NewSetFlag
  \/ NewReturn
  \/ InitCheck
  \/ InitGraph
  \/ InitFlag
  \/ Populate

SpecS == InitS /\ [][NextS]_vars

(***************************************************************************)
(* Properties.                                                             *)
(***************************************************************************)
\* the ids of the nodes of the matrix
Nodes == 0 .. (Len(graph) - 1)

\* the arguments of the last call
Arg1 == lastOp.args[1]
Arg2 == lastOp.args[2]

\* user a follows user b, read through is_edge
Follows(a, b) ==
  LET r == is_edge(graph, a, b) IN ~r.raised /\ r.ret = TRUE

\* C1: no self-loops, ever: in every reachable state is_edge(a, a) is false
\* for every in-bounds a.
C1_NoSelfLoops == \A a \in Nodes : ~Follows(a, a)

\* (not a claim) every call whose ids are all non-negative keeps a matrix
\* that has no self-loops free of them: the self-loops come from negative
\* ids only.
NonNegativeCallsKeepNoSelfLoops ==
  [][(/\ C1_NoSelfLoops
      /\ lastOp'.op \in {"add_edge", "remove_edge"}
           => lastOp'.args[1] >= 0 /\ lastOp'.args[2] >= 0
      /\ lastOp'.op \in {"create_node", "remove_node"} => lastOp'.args[1] >= 0
      /\ lastOp'.op = "initialize_graph"
           => \A k \in DOMAIN lastOp'.args[2] :
                lastOp'.args[2][k][1] >= 0 /\ lastOp'.args[2][k][2] >= 0)
     => C1_NoSelfLoops']_vars

\* the nodes reachable from the set reached in one more hop along outbound
\* edges (i follows j)
Step(g, reached) ==
  reached \cup {j \in 0 .. (Len(g) - 1) :
                  \E i \in reached : g[i + 1][j + 1] = 1}

\* the least number of outbound hops from the set reached (k hops from the
\* start) to b, -1 if there is no such path
RECURSIVE HopsFrom(_, _, _, _)
HopsFrom(g, reached, b, k) ==
  IF b \in reached THEN k
  ELSE IF Step(g, reached) = reached THEN -1
       ELSE HopsFrom(g, Step(g, reached), b, k + 1)

OutboundDistance(g, a, b) == HopsFrom(g, {a}, b, 0)

\* C2: get_degree_of_separation(start, target) is the least number of hops
\* from start to target along outbound edges (start follows x, x follows
\* y, ...), and -1 when target cannot be reached that way.
C2_DegreeIsOutboundDistance ==
  (lastOp.op = "get_degree_of_separation" /\ Arg1 \in Nodes /\ Arg2 \in Nodes)
    => ~raised /\ ret = OutboundDistance(graph, Arg1, Arg2)

\* C3: a non-empty path of k+1 nodes returned by get_shortest_path(a, b)
\* means get_degree_of_separation(a, b) = k, and each node of the path
\* follows the next one.
C3_PathAgreesWithDegree ==
  (/\ lastOp.op = "get_shortest_path"
   /\ Arg1 \in Nodes /\ Arg2 \in Nodes
   /\ ~raised
   /\ ret # <<>>)
    => /\ LET d == get_degree_of_separation(graph, Arg1, Arg2)
          IN ~d.raised /\ d.ret = Len(ret) - 1
       /\ \A k \in 1 .. (Len(ret) - 1) : Follows(ret[k], ret[k + 1])

\* C4: for in-bounds a # b, right after add_edge(a, b) is_edge(a, b) is
\* true, and right after remove_edge(a, b) it is false.
C4_EdgeMutationVisible ==
  /\ (lastOp.op = "add_edge" /\ Arg1 \in Nodes /\ Arg2 \in Nodes
        /\ Arg1 # Arg2)
       => ~raised /\ Follows(Arg1, Arg2)
  /\ (lastOp.op = "remove_edge" /\ Arg1 \in Nodes /\ Arg2 \in Nodes
        /\ Arg1 # Arg2)
       => ~raised /\ ~Follows(Arg1, Arg2)

\* remove_edge(a, b), a # b in bounds, has just removed a follow that an
\* earlier call had set
C4_Witness ==
  /\ lastOp.op = "remove_edge" /\ Arg1 \in Nodes /\ Arg2 \in Nodes
  /\ Arg1 # Arg2
  /\ changed
  /\ ~Follows(Arg1, Arg2)

\* an id at or beyond the matrix size, or negative
OutOfRange(id) == id >= Len(graph) \/ id < 0

\* C5: with an out-of-range id (>= the matrix size, or negative) every
\* query returns its neutral result, every mutation (add_edge, remove_edge,
\* remove_node) leaves the matrix unchanged, and no call raises.
C5_OutOfRangeIsSafe ==
  /\ (lastOp.op \in {"add_edge", "remove_edge"}
        /\ (OutOfRange(Arg1) \/ OutOfRange(Arg2)))
       => ~raised /\ ~changed
  /\ (lastOp.op = "remove_node" /\ OutOfRange(Arg1)) => ~raised /\ ~changed
  /\ (lastOp.op = "is_edge" /\ (OutOfRange(Arg1) \/ OutOfRange(Arg2)))
       => ~raised /\ ret = FALSE
  /\ (lastOp.op \in {"get_followers", "get_following"} /\ OutOfRange(Arg1))
       => ~raised /\ ret = <<>>
  /\ (lastOp.op = "get_degree_of_separation"
        /\ (OutOfRange(Arg1) \/ OutOfRange(Arg2)))
       => ~raised /\ ret = -1
  /\ (lastOp.op = "get_shortest_path"
        /\ (OutOfRange(Arg1) \/ OutOfRange(Arg2)))
       => ~raised /\ ret = <<>>
  /\ (lastOp.op = "calculate_centrality" /\ OutOfRange(Arg1))
       => ~raised /\ ret = Zero

\* C6: the matrix is always square: every row has length len(graph).
C6_Square == \A i \in 1 .. Len(graph) : Len(graph[i]) = Len(graph)

\* create_node has just grown a matrix that already held a follow: its old
\* rows were widened and new rows appended
C6_Witness ==
  /\ lastOp.op = "create_node"
  /\ changed
  /\ Len(graph) >= 3
  /\ CountConnections(graph) >= 1

\* C7: across create_node, remove_node, add_edge and remove_edge calls
\* return_num_of_users() never decreases, and remove_node leaves it
\* unchanged.
C7_NeverShrinks ==
  [][/\ lastOp'.op \in {"create_node", "remove_node", "add_edge",
                        "remove_edge"}
          => return_num_of_users(graph') >= return_num_of_users(graph)
     /\ lastOp'.op = "remove_node"
          => return_num_of_users(graph') = return_num_of_users(graph)]_vars

\* remove_node(id), id in bounds, has just cleared the follows of a node of
\* a matrix of three nodes
C7_Witness ==
  /\ lastOp.op = "remove_node" /\ Arg1 \in Nodes
  /\ changed
  /\ return_num_of_users(graph) = 3

\* C8: for every in-bounds x, get_degree_of_separation(x, x) = 0 and
\* get_shortest_path(x, x) = [x], whatever the edges of x.
C8_SameUser ==
  /\ (lastOp.op = "get_degree_of_separation" /\ Arg1 \in Nodes
        /\ Arg1 = Arg2)
       => ~raised /\ ret = 0
  /\ (lastOp.op = "get_shortest_path" /\ Arg1 \in Nodes /\ Arg1 = Arg2)
       => ~raised /\ ret = <<Arg1>>

\* get_degree_of_separation(x, x) has returned for a node x that follows
\* another node and is followed by one
C8_Witness ==
  /\ lastOp.op = "get_degree_of_separation" /\ Arg1 \in Nodes /\ Arg1 = Arg2
  /\ \E y \in Nodes \ {Arg1} : Follows(Arg1, y)
  /\ \E y \in Nodes \ {Arg1} : Follows(y, Arg1)
  /\ ret = 0

\* the number of followers of node i
InDegree(i) == Cardinality({j \in Nodes : graph[j + 1][i + 1] = 1})

\* the largest number of followers of a node
MaxInDegree ==
  CHOOSE m \in {InDegree(i) : i \in Nodes} : \A i \in Nodes : InDegree(i) <= m

\* the fraction q is a float within [0, 1]
InUnitInterval(q) == 0 <= q[1] /\ q[1] <= q[2] /\ q[2] > 0

\* the float 1.0
One == <<1, 1>>

\* C9 as claimed: on a non-empty graph calculate_influence() gives every
\* node id a value in [0, 1], and every node whose in-degree is the largest
\* in-degree has score exactly 1.0.
C9_AsClaimed ==
  (lastOp.op = "calculate_influence" /\ Len(graph) >= 1)
    => /\ ~raised
       /\ DOMAIN ret = Nodes
       /\ \A i \in Nodes :
            /\ InUnitInterval(ret[i])
            /\ InDegree(i) = MaxInDegree => ret[i] = One

\* C9 as amended: on a non-empty graph calculate_influence() gives every
\* node id a value in [0, 1], and when some node has a follower, every node
\* whose in-degree is the largest in-degree has score exactly 1.0.
C9_InfluenceNormalized ==
  (lastOp.op = "calculate_influence" /\ Len(graph) >= 1)
    => /\ ~raised
       /\ DOMAIN ret = Nodes
       /\ \A i \in Nodes :
            /\ InUnitInterval(ret[i])
            /\ (MaxInDegree > 0 /\ InDegree(i) = MaxInDegree) => ret[i] = One

\* calculate_influence() has returned on three nodes, one with two
\* followers (score 1.0), one with one (score 0.5)
C9_Witness ==
  /\ lastOp.op = "calculate_influence"
  /\ Len(graph) = 3
  /\ MaxInDegree = 2
  /\ \E i \in Nodes : InDegree(i) = 2 /\ ret[i] = One
  /\ \E i \in Nodes : InDegree(i) = 1 /\ ret[i] = <<1, 2>>

\* C10: when the graph has no edges at all, calculate_influence() returns
\* 0.0 for every node id 0..N-1 and does not raise; for one node the result
\* is {0: 0.0}.
C10_NoEdgesAllZero ==
  (lastOp.op = "calculate_influence" /\ CountConnections(graph) = 0)
    => /\ ~raised
       /\ DOMAIN ret = Nodes
       /\ \A i \in Nodes : ret[i] = Zero
       /\ Len(graph) = 1 => ret = [i \in {0} |-> <<0, 1>>]

\* calculate_influence() has returned {0: 0.0} on the single-node graph
C10_Witness ==
  /\ lastOp.op = "calculate_influence"
  /\ graph = <<<<0>>>>
  /\ ~raised
  /\ ret = [i \in {0} |-> Zero]

\* node i follows nobody: PageRank treats it as a sink
IsSink(i) == SumSeq(graph[i + 1]) = 0

C12_PagerankNormalized ==
  (lastOp.op = "calculate_pagerank" /\ Len(graph) >= 1)
    => /\ ~raised
       /\ DOMAIN ret = Nodes
       /\ \A i \in Nodes : InUnitInterval(ret[i])
       /\ \E i \in Nodes : ret[i] = One

\* calculate_pagerank() has returned on two nodes, the followed one scoring
\* 1.0 and its follower a positive score below 1.0
C12_Witness ==
  /\ lastOp.op = "calculate_pagerank"
  /\ graph = <<<<0, 1>>, <<0, 0>>>>
  /\ ret[1] = One
  /\ ret[0] # One /\ ret[0] # Zero /\ InUnitInterval(ret[0])

\* the following-set of id a: the nodes node a follows, nobody for an id
\* that is not a node
Following(a) ==
  IF a \in Nodes THEN {b \in Nodes : graph[a + 1][b + 1] = 1} ELSE {}

\* C13: Jaccard similarity is symmetric: for all node ids a, b whose
\* following-sets are both non-empty, _jaccard_similarity(a, b) is
\* _jaccard_similarity(b, a).
C13_JaccardSymmetric ==
  (/\ lastOp.op = "_jaccard_similarity"
   /\ Following(Arg1) # {} /\ Following(Arg2) # {})
    => /\ ~raised
       /\ ~jaccard_similarity(graph, Arg2, Arg1).raised
       /\ ret = jaccard_similarity(graph, Arg2, Arg1).ret

\* _jaccard_similarity(a, b) has returned 0.5 for two nodes one of which
\* follows one node and the other two
C13_Witness ==
  /\ lastOp.op = "_jaccard_similarity"
  /\ Arg1 # Arg2
  /\ Cardinality(Following(Arg1)) = 1
  /\ Cardinality(Following(Arg2)) = 2
  /\ ret = <<1, 2>>

\* C15 as claimed: _jaccard_similarity(a, b) returns 0.0, without raising,
\* whenever the following-set of a or of b is empty, be it that of a node
\* that follows nobody or that of an id that is not a node.
C15_EmptyFollowingGivesZero ==
  (/\ lastOp.op = "_jaccard_similarity"
   /\ (Following(Arg1) = {} \/ Following(Arg2) = {}))
    => (~raised /\ ret = Zero)

\* the float 1.0 of the recommendation engine
OneRoot == RootNumber(1, 0, 1, 0)

\* C14 as claimed: for every non-empty interest set S, of any size,
\* _cosine_similarity(S, S) is exactly 1.0.
C14_CosineOfItselfIsOne ==
  (lastOp.op = "_cosine_similarity" /\ Arg1 # {} /\ Arg1 = Arg2)
    => (~raised /\ ret = OneRoot)

\* the arguments of the last get_recommendations call: the threshold, and
\* the user table return_user_by_id read
Threshold == lastOp.args[2]
Users == lastOp.args[3]

\* the k-th entry (c, s) of the returned list
Candidate(k) == ret[k][1]
ScoreAt(k) == ret[k][2]

\* 0.6 * jaccard(u, c) + 0.4 * cosine(interests(u), interests(c))
ScoreOf(u, c) ==
  FinalScore(jaccard_similarity(graph, u, c).ret,
             cosine_similarity(Users[u].interests, Users[c].interests))

\* the float 0.4
PointFour == RootNumber(2, 0, 5, 0)

\* 0 follows 1, 1 follows 2, 2 follows nobody, and the users 0 and 2 have
\* the same, non-empty interests
C16_Scenario ==
  /\ graph = <<<<0, 1, 0>>, <<0, 0, 1>>, <<0, 0, 0>>>>
  /\ Users[0].found /\ Users[2].found
  /\ Users[0].interests # {}
  /\ Users[0].interests = Users[2].interests

\* C16 as claimed: every entry (c, s) of get_recommendations(u) has
\* s = 0.6 * jaccard(u, c) + 0.4 * cosine(interests(u), interests(c)), and
\* in the scenario get_recommendations(0) returns candidate 2 with score 0.4
\* for a threshold below 0.4 and does not return it for a threshold of 0.4
\* or more.
C16_WeightedScore ==
  (lastOp.op = "get_recommendations" /\ ~raised)
    => /\ \A k \in 1 .. Len(ret) : ScoreAt(k) = ScoreOf(Arg1, Candidate(k))
       /\ (C16_Scenario /\ Arg1 = 0)
            => IF FloatGreater(PointFour, Threshold)
               THEN \E k \in 1 .. Len(ret) : ret[k] = <<2, PointFour>>
               ELSE \A k \in 1 .. Len(ret) : Candidate(k) # 2

\* C17: for every graph and user u, the list get_recommendations(u) returns
\* never contains u itself nor a node u follows, and contains each
\* candidate id at most once.
C17_NoSelfNoFollowedNoDuplicate ==
  (lastOp.op = "get_recommendations")
    => /\ ~raised
       /\ \A k \in 1 .. Len(ret) :
            /\ Candidate(k) # Arg1
            /\ ~Follows(Arg1, Candidate(k))
            /\ \A m \in 1 .. Len(ret) : Candidate(m) = Candidate(k) => m = k

\* get_recommendations(0) has returned node 2 alone on three nodes, where 0
\* follows node 1 and shares interests with both
C17_Witness ==
  /\ lastOp.op = "get_recommendations"
  /\ Len(graph) = 3 /\ Arg1 = 0
  /\ Follows(0, 1) /\ ~Follows(0, 2)
  /\ Users[0].found /\ Users[0].interests # {}
  /\ Users[1] = Users[0] /\ Users[2] = Users[0]
  /\ Len(ret) = 1 /\ Candidate(1) = 2

\* the candidates get_recommendations(u) is to return: the nodes other than
\* u that u does not follow, that have a user row, and that score above the
\* threshold
Eligible(u) ==
  {c \in Nodes \ {u} : /\ ~Follows(u, c)
                       /\ Users[c].found
                       /\ FloatGreater(ScoreOf(u, c), Threshold)}

\* C18: a candidate without a user row does not end the scan: when u has a
\* row, get_recommendations(u) returns exactly the eligible candidates,
\* those behind a candidate without a row included.
C18_MissIsSkipped ==
  (lastOp.op = "get_recommendations" /\ Arg1 \in Nodes /\ Users[Arg1].found)
    => /\ ~raised
       /\ {Candidate(k) : k \in 1 .. Len(ret)} = Eligible(Arg1)

\* get_recommendations(0) has returned node 2 on three nodes although node
\* 1, scanned before it, has no user row
C18_Witness ==
  /\ lastOp.op = "get_recommendations"
  /\ Len(graph) = 3 /\ Arg1 = 0
  /\ ~Follows(0, 1)
  /\ Users[0].found /\ ~Users[1].found /\ Users[2].found
  /\ Len(ret) = 1 /\ Candidate(1) = 2

\* no thread is inside a call
Quiescent == \A t \in Threads : threads[t].pc \in {"idle", "done", "raised"}

\* C19 as claimed: under any interleaving of concurrent create_node,
\* add_edge and reading calls, no call trips over a torn matrix (none
\* raises IndexError), and once all calls have finished every row has
\* length len(graph).
C19_NoTornMatrix ==
  /\ ~raised
  /\ Quiescent => \A i \in 1 .. Len(graph) : Len(graph[i]) = Len(graph)

\* C20 as claimed: under any interleaving of concurrent constructions all
\* callers get the same instance, none fails, and the body of __init__ that
\* sets graph = [] runs once only, so that a matrix which has got nodes
\* through one caller is never emptied by the construction of another.
C20_ThreadSafeSingleton ==
  /\ ~raised
  /\ \A t, u \in Threads :
       (threads[t].self # 0 /\ threads[u].self # 0)
         => threads[t].self = threads[u].self
  /\ cls.inits <= 1
  /\ ~cls.reset

\* the calls that only read the matrix
QueryEngines ==
  {"get_degree_of_separation", "get_shortest_path", "calculate_centrality",
   "calculate_pagerank", "calculate_influence", "get_recommendations",
   "_jaccard_similarity", "get_followers", "get_following",
   "get_mutual_followers", "get_mutual_following", "are_mutual_followers"}

\* C21: no query engine mutates the graph: whatever its arguments, after a
\* call of one of the twelve reading methods the matrix has the size and
\* the cells it had before the call.
C21_QueriesLeaveGraphUnchanged ==
  lastOp.op \in QueryEngines => ~changed

\* get_followers has listed the two followers of a node of a stored matrix
\* and left the matrix as it was
C21_Witness ==
  /\ lastOp.op = "get_followers" /\ Arg1 \in Nodes
  /\ ~raised
  /\ Len(ret) = 2
  /\ ~changed
  /\ \A k \in 1 .. Len(ret) : Follows(ret[k], Arg1)

\* C22: create_node(id) with id >= the size N grows the matrix to exactly
\* (id+1) x (id+1), keeps every cell it had and sets every new cell to 0;
\* with id < N it changes nothing at all.
C22_CreateNodeFrame ==
  [][lastOp'.op = "create_node"
       => LET id == lastOp'.args[1]
              N == Len(graph)
          IN /\ ~raised'
             /\ id >= N
                  => /\ Len(graph') = id + 1
                     /\ \A i \in 1 .. (id + 1) :
                          /\ Len(graph'[i]) = id + 1
                          /\ \A j \in 1 .. (id + 1) :
                               graph'[i][j] =
                                 IF i <= N /\ j <= N THEN graph[i][j] ELSE 0
             /\ id < N => graph' = graph]_vars

\* create_node(2) has just grown a stored matrix of two nodes that follow
\* each other: both follows are still there, the new row and column are 0
C22_Witness ==
  /\ lastOp.op = "create_node" /\ Arg1 = 2
  /\ changed
  /\ graph = <<<<0, 1, 0>>, <<1, 0, 0>>, <<0, 0, 0>>>>

\* C23: remove_node(id) with id in bounds leaves node id without followers
\* and without following (row id and column id all 0) and every cell
\* outside that row and that column as it was; with id >= the size it
\* changes nothing.
C23_RemoveNodeFrame ==
  [][lastOp'.op = "remove_node"
       => LET id == lastOp'.args[1]
              N == Len(graph)
          IN /\ (0 <= id /\ id < N)
                  => /\ ~raised'
                     /\ Len(graph') = N
                     /\ \A i \in 1 .. N :
                          /\ Len(graph'[i]) = N
                          /\ \A j \in 1 .. N :
                               graph'[i][j] =
                                 IF i = id + 1 \/ j = id + 1 THEN 0
                                 ELSE graph[i][j]
             /\ id >= N => ~raised' /\ graph' = graph]_vars

\* remove_node(1) has just cleared the follows of node 1 in a matrix of
\* three nodes and left the follow 0 -> 2 in place
C23_Witness ==
  /\ lastOp.op = "remove_node" /\ Arg1 = 1
  /\ changed
  /\ graph = <<<<0, 0, 1>>, <<0, 0, 0>>, <<0, 0, 0>>>>

\* the follow row (f, t) is among the rows fetched
Fetched(rows, f, t) == \E k \in DOMAIN rows : rows[k] = <<f, t>>

\* C24 as claimed: whatever the graph was, after initialize_graph the matrix
\* is (maxId+1) x (maxId+1) and is_edge(f, t) holds exactly for the fetched
\* rows (f, t) with both ids in bounds and f # t; the other rows are skipped
\* without raising and without an effect on the rows that count.
C24_RebuildsFromScratch ==
  lastOp.op = "initialize_graph"
    => /\ ~raised
       /\ Len(graph) = Arg1 + 1
       /\ \A i \in 1 .. Len(graph) : Len(graph[i]) = Arg1 + 1
       /\ \A f \in Nodes, t \in Nodes :
            Follows(f, t) <=> (f # t /\ Fetched(Arg2, f, t))

\* (not a claim) when no fetched row has a negative id, the rebuilt matrix is
\* as C24 says: the difference comes from negative ids only.
NonNegativeRowsRebuildExactly ==
  (/\ lastOp.op = "initialize_graph"
   /\ \A k \in DOMAIN Arg2 : Arg2[k][1] >= 0 /\ Arg2[k][2] >= 0)
    => C24_RebuildsFromScratch

\* the paths of k hops from a to b along outbound edges
PathsOfLength(g, a, b, k) ==
  {p \in [1 .. (k + 1) -> 0 .. (Len(g) - 1)] :
     /\ p[1] = a
     /\ p[k + 1] = b
     /\ \A h \in 1 .. k : g[p[h] + 1][p[h + 1] + 1] = 1}

\* the sequence p comes before q, or is q, in the order that compares the
\* first node in which they differ
LexLeq(p, q) ==
  \/ p = q
  \/ \E h \in DOMAIN p :
       /\ p[h] < q[h]
       /\ \A e \in 1 .. (h - 1) : p[e] = q[e]

\* what C25 says of get_shortest_path(a, b) for node ids a, b: [] exactly
\* when b cannot be reached from a, else a path of the least number of
\* hops, and among those the one a BFS scanning the columns in ascending
\* order finds: its nodes are dequeued earliest, which makes it the first
\* of the shortest paths in the order LexLeq
ShortestPathAsClaimed(a, b) ==
  LET k == OutboundDistance(graph, a, b)
  IN /\ ~raised
     /\ k = -1 => ret = <<>>
     /\ k >= 0
          => /\ ret \in PathsOfLength(graph, a, b, k)
             /\ \A q \in PathsOfLength(graph, a, b, k) : LexLeq(ret, q)

\* C25 as claimed: get_shortest_path(a, b) is the shortest outbound path
\* from a to b chosen by the ascending-index tie-break, and it is []
\* exactly when b is not reachable from a or an index is out of range.
C25_ShortestPathTieBreak ==
  lastOp.op = "get_shortest_path"
    => IF Arg1 \in Nodes /\ Arg2 \in Nodes
       THEN ShortestPathAsClaimed(Arg1, Arg2)
       ELSE ~raised /\ ret = <<>>

\* (not a claim) for ids that are not negative get_shortest_path is as C25
\* says: the difference comes from negative ids only.
NonNegativeShortestPathTieBreak ==
  (lastOp.op = "get_shortest_path" /\ Arg1 >= 0 /\ Arg2 >= 0)
    => C25_ShortestPathTieBreak

\* the sum of f[x] over the elements x of the set S
RECURSIVE SumOver(_, _)
SumOver(f, S) ==
  IF S = {} THEN 0
  ELSE LET x == CHOOSE y \in S : TRUE
       IN f[x] + SumOver(f, S \ {x})

\* reachableCount / sumOfDistances for node id of the matrix g, 0.0 when no
\* other node can be reached along outbound edges
Closeness(g, id) ==
  LET dist == [i \in 0 .. (Len(g) - 1) |-> OutboundDistance(g, id, i)]
      reachable == {i \in 0 .. (Len(g) - 1) : i # id /\ dist[i] > 0}
  IN IF reachable = {} THEN Zero
     ELSE Div(Cardinality(reachable), SumOver(dist, reachable))

\* the matrix g with every follow turned round
Transposed(g) == [i \in 1 .. Len(g) |-> [j \in 1 .. Len(g) |-> g[j][i]]]

\* C26 as claimed: calculate_centrality(id) is reachableCount /
\* sumOfDistances over the nodes reachable from id along outbound edges,
\* with their least outbound hop counts, and 0.0 when id is out of bounds
\* or no other node is reachable.
C26_CentralityIsOutboundCloseness ==
  lastOp.op = "calculate_centrality"
    => /\ ~raised
       /\ ret = IF Arg1 \in Nodes THEN Closeness(graph, Arg1) ELSE Zero

\* (not a claim) what the code returns for a node id: the same quotient
\* over the nodes that reach id, that is along inbound edges
CentralityIsInboundCloseness ==
  (lastOp.op = "calculate_centrality" /\ Arg1 \in Nodes)
    => ~raised /\ ret = Closeness(Transposed(graph), Arg1)

\* the frame of the traversal
Frame == threads[1]

\* C27: both BFS traversals enqueue each node at most once and terminate on
\* every graph, cycles and mutual follows included: the while loop over the
\* queue takes at most one turn for each node, after which the call has
\* ended or walks back; the walk back over the parents in get_shortest_path
\* terminates too, after at most one turn for each node, and reaches start.
C27_TraversalsTerminate ==
  /\ \A k \in DOMAIN Frame.enqueued : Frame.enqueued[k] <= 1
  /\ Frame.pc \in {"degree_356", "path_391"} => Frame.turns <= Len(graph)
  /\ Frame.pc = "path_408"
       => /\ Frame.turns <= Len(graph)
          /\ Len(Frame.path) = Frame.turns
          /\ Frame.curr = -1
               => Frame.path # <<>> /\ Frame.path[Len(Frame.path)] = Arg1
  /\ Frame.pc \in {"idle", "degree_356", "path_391", "path_408", "done"}

\* get_shortest_path(0, 2) has walked back from 2 to 0 on three nodes that
\* follow each other in a ring, every one of them enqueued once
C27_Witness ==
  /\ lastOp.op = "get_shortest_path" /\ Arg1 = 0 /\ Arg2 = 2
  /\ graph = <<<<0, 1, 0>>, <<0, 0, 1>>, <<1, 0, 0>>>>
  /\ Frame.pc = "done"
  /\ Frame.enqueued = <<1, 1, 1>>
  /\ ret = <<0, 1, 2>>

\* C28: the list get_recommendations(u, threshold) returns is ordered by
\* non-increasing score and holds exactly the eligible candidates whose
\* final score is strictly greater than threshold: a candidate that scores
\* the threshold itself (0.0 with the default threshold 0.0) is left out.
C28_OrderedAndAboveThreshold ==
  (lastOp.op = "get_recommendations" /\ Arg1 \in Nodes /\ Users[Arg1].found)
    => /\ ~raised
       /\ \A k \in 1 .. (Len(ret) - 1) :
            ~FloatGreater(ScoreAt(k + 1), ScoreAt(k))
       /\ \A k \in 1 .. Len(ret) :
            /\ ScoreAt(k) = ScoreOf(Arg1, Candidate(k))
            /\ FloatGreater(ScoreAt(k), Threshold)
            /\ ScoreAt(k) # Threshold
       /\ \A c \in Nodes \ {Arg1} :
            (/\ ~Follows(Arg1, c)
             /\ Users[c].found
             /\ \E k \in 1 .. Len(ret) : Candidate(k) = c)
              <=> c \in Eligible(Arg1)

\* get_recommendations(0) with the default threshold has returned node 2
\* before node 1, the scores falling, on three nodes
C28_Witness ==
  /\ lastOp.op = "get_recommendations"
  /\ Len(graph) = 3 /\ Arg1 = 0
  /\ Threshold = RootNumber(0, 0, 1, 0)
  /\ Len(ret) = 2
  /\ Candidate(1) = 2 /\ Candidate(2) = 1
  /\ FloatGreater(ScoreAt(1), ScoreAt(2))

\* (not a claim) get_recommendations(0) with the threshold 0.4 has left out
\* a candidate whose score is 0.4
ThresholdItselfLeftOut ==
  /\ lastOp.op = "get_recommendations"
  /\ Arg1 = 0 /\ 0 \in Nodes /\ Users[0].found
  /\ Threshold = PointFour
  /\ \E c \in Nodes \ {0} :
       /\ ~Follows(0, c) /\ Users[c].found
       /\ ScoreOf(0, c) = PointFour
       /\ \A k \in 1 .. Len(ret) : Candidate(k) # c

\* C30: get_recommendations breaks ties in a fixed way: candidates with
\* equal final scores appear in ascending order of their ids, as they were
\* appended, the sort by falling score being stable.
C30_TiesInAscendingIdOrder ==
  lastOp.op = "get_recommendations"
    => /\ ~raised
       /\ \A k \in 1 .. Len(ret), m \in 1 .. Len(ret) :
            (k < m /\ ScoreAt(k) = ScoreAt(m)) => Candidate(k) < Candidate(m)

\* get_recommendations(2) has returned nodes 0 and 1 with the same score,
\* node 0 first
C30_Witness ==
  /\ lastOp.op = "get_recommendations"
  /\ Len(graph) = 3 /\ Arg1 = 2
  /\ Len(ret) = 2
  /\ ScoreAt(1) = ScoreAt(2)
  /\ Candidate(1) = 0 /\ Candidate(2) = 1

\* the store holds the edge a -> b exactly when the follow table holds the
\* row (a, b) with a # b
Faithful(g, d) ==
  \A a \in Registered(d), b \in Registered(d) :
    (is_edge(g, a, b).ret = TRUE) <=> (a # b /\ <<a, b>> \in d.follow)

\* C29: after any sequence of register_user, follow and unfollow the store
\* is the faithful cache of the follow table: it holds the edge a -> b
\* exactly when the table holds the row (a, b) with a # b, a failing
\* add_follow or delete_follow and a user following themselves included.
C29_GraphIsFaithfulCache == Faithful(graph, db)

\* (not a claim) a step whose database call did not fail keeps the cache
\* faithful, the follow of oneself and the unfollow of a missing row
\* included
SucceedingCallsKeepCacheFaithful ==
  [][(/\ Faithful(graph, db)
      /\ lastOp'.op \in {"follow", "unfollow"} => ~lastOp'.args[3])
       => Faithful(graph', db')]_vars

\* (not a claim) a user can be made to follow themselves: the row is
\* stored and the store holds no such edge
SelfFollowStored ==
  /\ lastOp.op = "follow"
  /\ lastOp.args[1] = lastOp.args[2]
  /\ <<lastOp.args[1], lastOp.args[1]>> \in db.follow

====
